---- MODULE Spec2Model ----
(***************************************************************************)
(* Verification model of the Variational/Lighter spread monitor:           *)
(*   app/utils/stats.py            robust statistics                       *)
(*   app/engine/spread_engine.py   spread engine and confirm executor      *)
(*   app/feeds/lighter_ws.py       primary-venue feed loop                 *)
(*                                                                         *)
(* Number representation.  Prices are integers (price units chosen so that *)
(* the divisions of _calc_bps are exact), spreads in bps are integers,     *)
(* and every quantile-derived value (median, iqr, deviation) is kept in    *)
(* quarter-bps, i.e. multiplied by QDen, because the interpolation weights *)
(* of the quantiles 0.25, 0.5 and 0.75 are multiples of 1/4.  Optional     *)
(* values are << >> (None) or <<v>>.  Backoff delays are in units of       *)
(* 10^-5 s, in which 1.6^k is exact for every value below the cap.         *)
(***************************************************************************)
EXTENDS Integers, Sequences, FiniteSets, TLC

VARIABLES
  clock,        \* int(time.time()): wall clock in whole seconds
  markets,      \* STATE.markets: base -> Market
  eng_wake,     \* earliest clock at which the engine loop's sleep(1.0) is over
  updates,      \* number of quote updates applied so far (bounded)
  slips,        \* number of seconds by which loops have run late (bounded)
  lastCond,     \* history variable: per base, outcome of cond in the last engine tick
  condSince,    \* history variable: per base, tick time since which cond was observed
                \* true on every engine tick (None when the last tick did not observe it)
  prevAnomaly,  \* history variable: per base, anomaly before the last engine tick
  runEnded,     \* history variable: per base, when the last engine tick saw cond false
                \* and so ended a run of ticks that saw it true and that began with the
                \* timer unset: the seconds from the first to the last tick of the run
  lastTick,     \* history variable: now_s of the last engine tick (None before the first)
  horizon,      \* the clock value at which the model stops the clock (never changes)
  order,        \* the bases of STATE.markets in insertion order (never changes)
  pc_c,         \* confirm_executor_loop: "off", "sleep", "await_var", "await_vwap"
  c_wake,       \* earliest clock at which the confirm loop's sleep(1.0) is over
  c_now,        \* now_s of the confirm pass under way
  c_idx,        \* position in order of the market the pass is at (0: none)
  c_var,        \* var_buy, the result of the first await of the attempt under way
  c_start,      \* history variable: clock at which the attempt under way started
  lastDone,     \* history variable: per base, clock at which its last successful
                \* confirmation completed (None: never)
  res,          \* history variable: per base, "-", "ok" or "fail": its attempt in the
                \* pass under way (or the last pass)
  prevRes,      \* history variable: res of the pass before
  pc_f,         \* lighter_ws_loop: "off", "connecting", "recv", "sleeping", "done"
                \* (returned) or "cancelled" (ended by CancelledError)
  backoff,      \* lighter_ws_loop: backoff, in units of 10^-5 s
  session_id,   \* LighterWSState.session_id
  last_error,   \* LighterWSState.last_error
  stop,         \* stop_event.is_set()
  cancel_req,   \* _lighter_task.cancel() was called and CancelledError is not yet thrown
  fails,        \* number of failed connections so far (bounded)
  msgs,         \* number of inbound messages so far (bounded)
  streak,       \* history variable: failures since the last successful connect
  exit_from,    \* history variable: where the loop was when it was cancelled
  h_win,        \* history update alone: settings.BASELINE_WINDOW_SEC as configured
  h_now,        \* history update alone: now_s of the last tick
  h_hist,       \* history update alone: Market.spread_bps_hist of one market
  h_dropped,    \* history variable: the samples the last tick evicted
  h_left,       \* history update alone: ticks left in the behaviour
  market_stats, \* LighterWSState.market_stats: market id -> normalised stats
  markets_seen, \* LighterWSState.markets_seen
  last_message_ts, \* LighterWSState.last_message_ts (whole seconds)
  f_last,       \* history variable: the last raw message _handle_message was given
  f_latest,     \* history variable: market id -> the latest well-formed entry
                \* <<key, value>> for the id in the market_stats payloads so far
  VAR_BATCH,    \* main.VAR_BATCH: sequence of <<<<base, notional_int>>, quote>>
  ACTIVE_BASES, \* main.ACTIVE_BASES
  SPREAD_SERIES, \* main.SPREAD_SERIES: sequence of <<<<base, mode>>, points>>
  b_last,       \* history variable: the body of the last /ingest/var_batch request
  b_resp,       \* history variable: its outcome, <<"ok", count>> or <<"raised">>
  b_count,      \* number of quote records received so far (bounded)
  q_req,        \* history variable: the read the last step answered (None: it
                \* answered none): <<base, window, metric, mode>> of a query of
                \* /api/chart/series, or <<base, notional_int>> of a quote lookup
  q_resp,       \* history variable: its outcome: <<"ok", points, latest>> or
                \* <<"raised">>, or <<"quote", result>>
  st_vals,      \* stats.py on its own: the list a function is called with
  st_out,       \* stats.py on its own: the last call and what it returned
  CACHE,        \* lighter_markets._CACHE: [ts, data] (data None: << >>)
  mk_flight,    \* fetch_lighter_markets: `now` of each call awaiting client.get
  mk_ret,       \* history variable: what the last step of fetch_lighter_markets
                \* did: <<"cached", now, list>>, <<"request", now>>,
                \* <<"fetched", now, list>> or <<"empty", now, outcome>>
  mk_fetched,   \* history variable: of the calls that fetched a list, the
                \* latest entry (begun) and the latest return (done); None:
                \* no call has
  mk_calls      \* number of calls of fetch_lighter_markets so far (bounded)

engineVars == <<clock, markets, eng_wake, updates, slips, lastCond, condSince,
                prevAnomaly, runEnded, lastTick, horizon, order>>

confirmVars == <<pc_c, c_wake, c_now, c_idx, c_var, c_start, lastDone, res, prevRes>>

feedVars == <<pc_f, backoff, session_id, last_error, stop, cancel_req, fails, msgs,
              streak, exit_from>>

histVars == <<h_win, h_now, h_hist, h_dropped, h_left>>

storeVars == <<market_stats, markets_seen, last_message_ts, f_last, f_latest>>

\* the variables of the parts modelled on their own
batchVars == <<VAR_BATCH, ACTIVE_BASES, SPREAD_SERIES, b_last, b_resp, b_count, q_req, q_resp>>

statVars == <<st_vals, st_out>>

cacheVars == <<CACHE, mk_flight, mk_ret, mk_fetched, mk_calls>>

extVars == <<histVars, storeVars, batchVars, statVars, cacheVars>>

vars == <<engineVars, confirmVars, feedVars, extVars>>

----------------------------------------------------------------------------
(* Optional values and Python truthiness *)

None == << >>

Some(v) == <<v>>

\* `if x` on an Optional[float]: None and 0.0 are falsy
Truthy(o) == o # None /\ o[1] # 0

Min(a, b) == IF a <= b THEN a ELSE b

Max(a, b) == IF a >= b THEN a ELSE b

Abs(a) == IF a >= 0 THEN a ELSE 0 - a

----------------------------------------------------------------------------
(* Settings (app/config.py).  The three durations are environment-        *)
(* configured; the model runs a small configuration of them.              *)

BASELINE_WINDOW_SEC == 21

PERSIST_SEC == 3

VAR_CONFIRM_COOLDOWN_SEC == 3

MIN_DELTA_BPS == 8

CONFIRM_NOTIONAL_USD == 3000

\* median_iqr needs this many samples
MIN_SAMPLES == 20

\* deque(maxlen=7200) of Market.spread_bps_hist
HIST_MAXLEN == 7200

\* denominator of the quantiles 0.25, 0.5, 0.75 and unit of the scaled statistics
QDen == 4

----------------------------------------------------------------------------
(* Bounds of the model *)

\* seconds of wall clock a behaviour covers
MaxTime == 7

\* seconds of wall clock a behaviour of the confirm executor covers
MaxConfirmTime == 4

\* quote updates (writes of best_ask / buy_1500) per behaviour
MaxUpdates == 3

\* seconds by which the loops may run late, summed over a behaviour
MaxSlips == 1

\* engine ticks the process has already run in the warm initial state
WarmLen == 19

\* the clock when the process started
Boot == 100

\* failed connections of the feed per behaviour
MaxFails == 8

\* inbound feed messages per behaviour
MaxMsgs == 2

\* seconds of wall clock a behaviour of the feed covers
MaxFeedTime == 1

\* quote records in the /ingest/var_batch requests of a behaviour, in all
MaxQuotes == 2

\* seconds of wall clock a behaviour of the endpoints covers
MaxBatchTime == 1

\* a configured baseline window longer than HIST_MAXLEN seconds
LongWindow == 7300

\* the sorted lists _quantile is called with on its own: their greatest
\* length and their greatest value
MaxStatLen == 4

MaxStatVal == 5

\* seconds between two engine ticks that append a sample, at most
MaxGap == 3

\* appending ticks per behaviour of the history update alone
MaxHistTicks == 4

----------------------------------------------------------------------------
(* app/utils/stats.py *)

\* float("nan"), and None where a float is expected: two numbers that no
\* computation of the model yields
NaN == 0 - 999999999

Null == 0 - 999999998

RECURSIVE Insert(_, _)
Insert(x, s) ==
  IF s = << >> THEN <<x>>
  ELSE IF x <= Head(s) THEN <<x>> \o s
  ELSE <<Head(s)>> \o Insert(x, Tail(s))

RECURSIVE Sorted(_)
Sorted(s) == IF s = << >> THEN << >> ELSE Insert(Head(s), Sorted(Tail(s)))

\* _quantile with the two interpolation weights exchanged
Quantile_Swapped(s, qn) ==
  LET n   == Len(s)
      num == (n - 1) * qn
      lo  == num \div QDen
      r   == num % QDen
      hi  == IF r = 0 THEN lo ELSE lo + 1
  IN  IF n = 1 THEN QDen * s[1]
      ELSE IF lo = hi THEN QDen * s[lo + 1]
      ELSE s[lo + 1] * r + s[hi + 1] * (QDen - r)

\* _quantile(sorted_vals, qn/QDen), multiplied by QDen.  Sequences are 1-based,
\* so Python's sorted_vals[lo] is s[lo + 1].  Only called with n >= 1.
Quantile(s, qn) ==
  LET n   == Len(s)
      num == (n - 1) * qn
      lo  == num \div QDen
      r   == num % QDen
      hi  == IF r = 0 THEN lo ELSE lo + 1
  IN  IF n = 1 THEN QDen * s[1]
      ELSE IF lo = hi THEN QDen * s[lo + 1]
      ELSE s[lo + 1] * (QDen - r) + s[hi + 1] * r

\* the filter of median_iqr: v is not None and not math.isnan(v)
Filtered(vals) == SelectSeq(vals, LAMBDA v : v # Null /\ v # NaN)

\* median_iqr with the threshold one sample lower
median_iqr_OneLess(vals) ==
  IF Len(Filtered(vals)) < MIN_SAMPLES - 1 THEN <<None, None>>
  ELSE LET s   == Sorted(Filtered(vals))
           med == Quantile(s, 2)
           q25 == Quantile(s, 1)
           q75 == Quantile(s, 3)
       IN  <<Some(med), Some(q75 - q25)>>

\* median_iqr with the length test on the unfiltered list
median_iqr_NoFilter(vals) ==
  IF Len(vals) < MIN_SAMPLES THEN <<None, None>>
  ELSE LET s   == Sorted(Filtered(vals))
           med == Quantile(s, 2)
           q25 == Quantile(s, 1)
           q75 == Quantile(s, 3)
       IN  <<Some(med), Some(q75 - q25)>>

\* median_iqr(vals): <<med, iqr>>, each None or <<value * QDen>>
median_iqr(vals) ==
  IF Len(Filtered(vals)) < MIN_SAMPLES THEN <<None, None>>
  ELSE LET s   == Sorted(Filtered(vals))
           med == Quantile(s, 2)
           q25 == Quantile(s, 1)
           q75 == Quantile(s, 3)
       IN  <<Some(med), Some(q75 - q25)>>

----------------------------------------------------------------------------
(* app/engine/spread_engine.py: helpers *)

\* _calc_bps(spread_usd, ref_price).  The division is exact for the prices
\* the model uses (ref_price divides 10^4 * spread_usd).
calc_bps(spread_usd, ref_price) ==
  IF ref_price <= 0 THEN None ELSE Some((spread_usd * 10000) \div ref_price)

\* _trim_hist with `if` for `while`: at most one sample is dropped
trim_hist_once(hist, window_sec, now) ==
  IF hist # << >> /\ (now - hist[1][1]) > window_sec THEN Tail(hist) ELSE hist

\* _trim_hist(hist, window_sec), with the value `now` of its own _now_s() call
RECURSIVE trim_hist(_, _, _)
trim_hist(hist, window_sec, now) ==
  IF hist # << >> /\ (now - hist[1][1]) > window_sec
  THEN trim_hist(Tail(hist), window_sec, now)
  ELSE hist

\* deque.append on a deque(maxlen=HIST_MAXLEN)
deque_append(hist, x) ==
  IF Len(hist) >= HIST_MAXLEN THEN Append(Tail(hist), x) ELSE Append(hist, x)

\* the cond of the engine without the floor MIN_DELTA_BPS
Cond_NoFloor(dev, iqr) == Abs(dev) >= 2 * iqr

\* the cond of the engine: abs(dev) >= max(MIN_DELTA_BPS, 2.0 * iqr), in quarter-bps
Cond(dev, iqr) == Abs(dev) >= Max(QDen * MIN_DELTA_BPS, 2 * iqr)

\* AnomalyStep with the clearing edge keeping the timer
AnomalyStep_KeepTimer(m, cond, now_s) ==
  IF cond
  THEN LET st == IF m.anomaly_started_s = None THEN Some(now_s)
                 ELSE m.anomaly_started_s
       IN  [m EXCEPT !.anomaly_started_s = st,
                     !.anomaly = IF (now_s - st[1]) >= PERSIST_SEC THEN TRUE
                                 ELSE m.anomaly]
  ELSE [m EXCEPT !.anomaly = FALSE]

\* AnomalyStep with > for >= in the persistence test
AnomalyStep_Strict(m, cond, now_s) ==
  IF cond
  THEN LET st == IF m.anomaly_started_s = None THEN Some(now_s)
                 ELSE m.anomaly_started_s
       IN  [m EXCEPT !.anomaly_started_s = st,
                     !.anomaly = IF (now_s - st[1]) > PERSIST_SEC THEN TRUE
                                 ELSE m.anomaly]
  ELSE [m EXCEPT !.anomaly = FALSE, !.anomaly_started_s = None]

\* AnomalyStep with the persistence test one second early
AnomalyStep_Early(m, cond, now_s) ==
  IF cond
  THEN LET st == IF m.anomaly_started_s = None THEN Some(now_s)
                 ELSE m.anomaly_started_s
       IN  [m EXCEPT !.anomaly_started_s = st,
                     !.anomaly = IF (now_s - st[1]) >= PERSIST_SEC - 1 THEN TRUE
                                 ELSE m.anomaly]
  ELSE [m EXCEPT !.anomaly = FALSE, !.anomaly_started_s = None]

\* AnomalyStep with the clearing edge unsetting the timer alone
AnomalyStep_KeepActive(m, cond, now_s) ==
  IF cond
  THEN LET st == IF m.anomaly_started_s = None THEN Some(now_s)
                 ELSE m.anomaly_started_s
       IN  [m EXCEPT !.anomaly_started_s = st,
                     !.anomaly = IF (now_s - st[1]) >= PERSIST_SEC THEN TRUE
                                 ELSE m.anomaly]
  ELSE [m EXCEPT !.anomaly_started_s = None]

\* the anomaly branch of the engine (lines 48-55)
AnomalyStep(m, cond, now_s) ==
  IF cond
  THEN LET st == IF m.anomaly_started_s = None THEN Some(now_s)
                 ELSE m.anomaly_started_s
       IN  [m EXCEPT !.anomaly_started_s = st,
                     !.anomaly = IF (now_s - st[1]) >= PERSIST_SEC THEN TRUE
                                 ELSE m.anomaly]
  ELSE [m EXCEPT !.anomaly = FALSE, !.anomaly_started_s = None]

\* the baseline part of the engine, once spread_bps is known (lines 32-55)
BaselineStep(m, bps, now_s, trim_now) ==
  LET hist == trim_hist(deque_append(m.spread_bps_hist, <<now_s, bps>>),
                        BASELINE_WINDOW_SEC, trim_now)
      vals == [i \in 1..Len(hist) |-> hist[i][2]]
      mi   == median_iqr(vals)
      m2   == [m EXCEPT !.spread_bps_hist = hist,
                        !.baseline_median_bps = mi[1],
                        !.baseline_iqr_bps = mi[2]]
  IN  IF mi[1] # None /\ mi[2] # None
      THEN LET dev == QDen * bps - mi[1][1]
           IN  AnomalyStep([m2 EXCEPT !.deviation_bps = Some(dev)],
                           Cond(dev, mi[2][1]), now_s)
      ELSE m2

\* EngineMarket with an else branch that clears the live spread
EngineMarket_ClearSpread(m, now_s, trim_now) ==
  IF Truthy(m.best_ask) /\ Truthy(m.buy_1500)
  THEN LET spread_usd == m.buy_1500[1] - m.best_ask[1]
           spread_bps == calc_bps(spread_usd, m.best_ask[1])
           m1 == [m EXCEPT !.spread_usd = Some(spread_usd),
                           !.spread_bps = spread_bps]
       IN  IF spread_bps # None
           THEN BaselineStep(m1, spread_bps[1], now_s, trim_now)
           ELSE m1
  ELSE [m EXCEPT !.spread_usd = None, !.spread_bps = None]

\* one iteration of the engine's for loop over a market (lines 24-55)
EngineMarket(m, now_s, trim_now) ==
  IF Truthy(m.best_ask) /\ Truthy(m.buy_1500)
  THEN LET spread_usd == m.buy_1500[1] - m.best_ask[1]
           spread_bps == calc_bps(spread_usd, m.best_ask[1])
           m1 == [m EXCEPT !.spread_usd = Some(spread_usd),
                           !.spread_bps = spread_bps]
       IN  IF spread_bps # None
           THEN BaselineStep(m1, spread_bps[1], now_s, trim_now)
           ELSE m1
  ELSE m

\* what the tick observed of cond for a market: "T", "F", or "NA" (not evaluated)
CondSeen(m, now_s, trim_now) ==
  IF Truthy(m.best_ask) /\ Truthy(m.buy_1500) /\ m.best_ask[1] > 0
  THEN LET m2 == EngineMarket(m, now_s, trim_now)
       IN  IF m2.baseline_median_bps # None /\ m2.baseline_iqr_bps # None
           THEN IF Cond(m2.deviation_bps[1], m2.baseline_iqr_bps[1]) THEN "T" ELSE "F"
           ELSE "NA"
  ELSE "NA"

----------------------------------------------------------------------------
(* State *)

Bases == {order[i] : i \in 1..Len(order)}

\* Market(...) as constructed (app/state.py): every Optional None, anomaly False
NewMarket ==
  [best_ask |-> None, buy_1500 |-> None,
   spread_usd |-> None, spread_bps |-> None,
   baseline_median_bps |-> None, baseline_iqr_bps |-> None,
   deviation_bps |-> None,
   anomaly |-> FALSE, anomaly_started_s |-> None,
   last_confirm_s |-> None, confirm |-> None,
   spread_bps_hist |-> << >>]

\* values the writers of the book and of the secondary quote store
AskVals == {None, Some(0), Some(0 - 10000), Some(10000)}

VarVals == {None, Some(10000), Some(10007), Some(10008)}

\* a market after the engine ticked it at t, t+1, ..., t+n-1 under a steady quote
RECURSIVE Ticked(_, _, _)
Ticked(m, t, n) ==
  IF n = 0 THEN m ELSE Ticked(EngineMarket(m, t, t), t + 1, n - 1)

\* n ticks from process start under the quote ask = buy_1500 = 10000
WarmMarket(n) ==
  IF n = 0 THEN NewMarket
  ELSE Ticked([NewMarket EXCEPT !.best_ask = Some(10000), !.buy_1500 = Some(10000)],
              Boot, n)

\* MIN_SAMPLES ticks under the steady quote, then PERSIST_SEC + 1 ticks with
\* buy_1500 = 10008: the anomaly has just become active
ActiveMarket ==
  Ticked([WarmMarket(MIN_SAMPLES) EXCEPT !.buy_1500 = Some(10008)],
         Boot + MIN_SAMPLES, PERSIST_SEC + 1)

\* the feed task is not part of the behaviour
FeedOff ==
  /\ pc_f = "off"
  /\ backoff = 0
  /\ session_id = None
  /\ last_error = None
  /\ stop = FALSE
  /\ cancel_req = FALSE
  /\ fails = 0
  /\ msgs = 0
  /\ streak = 0
  /\ exit_from = "-"

\* the history update is not checked on its own
HistOff ==
  /\ h_win = 0
  /\ h_now = 0
  /\ h_hist = << >>
  /\ h_dropped = {}
  /\ h_left = 0

\* LighterWSState() as constructed
StoreEmpty ==
  /\ market_stats = << >>
  /\ markets_seen = {}
  /\ last_message_ts = None
  /\ f_last = <<"none">>
  /\ f_latest = << >>

\* no request has reached the endpoints of main.py
BatchOff ==
  /\ VAR_BATCH = << >>
  /\ ACTIVE_BASES = {}
  /\ SPREAD_SERIES = << >>
  /\ b_last = None
  /\ b_resp = <<"none">>
  /\ b_count = 0
  /\ q_req = None
  /\ q_resp = <<"none">>

\* no function of stats.py is called on its own
StatOff ==
  /\ st_vals = << >>
  /\ st_out = <<"none">>

\* lighter_markets as imported: nothing has called fetch_lighter_markets
CacheOff ==
  /\ CACHE = [ts |-> 0, data |-> None]
  /\ mk_flight = << >>
  /\ mk_ret = <<"none">>
  /\ mk_fetched = None
  /\ mk_calls = 0

ExtOff == HistOff /\ StoreEmpty /\ BatchOff /\ StatOff /\ CacheOff

ConfirmOff ==
  /\ pc_c = "off"
  /\ c_wake = 0
  /\ c_now = 0
  /\ c_idx = 0
  /\ c_var = None
  /\ c_start = 0
  /\ lastDone = [b \in Bases |-> None]
  /\ res = [b \in Bases |-> "-"]
  /\ prevRes = [b \in Bases |-> "-"]

\* The engine alone, one market.  The process either has just started (n = 0)
\* or has run WarmLen engine ticks at a 1 s cadence under a steady quote.
InitEngine ==
  \E n \in {0, WarmLen} :
    /\ order = <<"BTC">>
    /\ clock = Boot + n
    /\ markets = [b \in Bases |-> WarmMarket(n)]
    /\ eng_wake = Boot + n
    /\ updates = 0
    /\ slips = 0
    /\ lastCond = [b \in Bases |-> "NA"]
    /\ condSince = [b \in Bases |-> None]
    /\ prevAnomaly = [b \in Bases |-> FALSE]
    /\ runEnded = [b \in Bases |-> None]
    /\ lastTick = IF n = 0 THEN None ELSE Some(Boot + n - 1)
    /\ horizon = Boot + n + MaxTime
    /\ ConfirmOff
    /\ FeedOff
    /\ ExtOff

\* Engine and confirm executor, two markets, both just become anomalous; the
\* confirm loop is about to make its first pass.  One quote update and one
\* second of lateness are left.
InitConfirm ==
  LET n == MIN_SAMPLES + PERSIST_SEC + 1 IN
    /\ order = <<"BTC", "ETH">>
    /\ clock = Boot + n
    /\ markets = [b \in Bases |-> ActiveMarket]
    /\ eng_wake = Boot + n
    /\ updates = MaxUpdates - 1
    /\ slips = MaxSlips - 1
    /\ lastCond = [b \in Bases |-> "T"]
    /\ condSince = [b \in Bases |-> Some(Boot + MIN_SAMPLES)]
    /\ prevAnomaly = [b \in Bases |-> FALSE]
    /\ runEnded = [b \in Bases |-> None]
    /\ lastTick = Some(Boot + n - 1)
    /\ horizon = Boot + n + MaxConfirmTime
    /\ pc_c = "sleep"
    /\ c_wake = Boot + n
    /\ c_now = 0
    /\ c_idx = 0
    /\ c_var = None
    /\ c_start = 0
    /\ lastDone = [b \in Bases |-> None]
    /\ res = [b \in Bases |-> "-"]
    /\ prevRes = [b \in Bases |-> "-"]
    /\ FeedOff
    /\ ExtOff

----------------------------------------------------------------------------
(* Environment: the clock and the writers of the quotes *)

\* a loop whose sleep is over and that has not run yet
EngineLate == clock >= eng_wake

ConfirmLate == pc_c = "sleep" /\ clock >= c_wake

\* a second passes; letting a loop run late uses the slip budget
AdvanceClock ==
  /\ clock < horizon
  /\ (EngineLate \/ ConfirmLate) => slips < MaxSlips
  /\ clock' = clock + 1
  /\ slips' = IF EngineLate \/ ConfirmLate THEN slips + 1 ELSE slips
  /\ UNCHANGED <<markets, eng_wake, updates, lastCond, condSince, prevAnomaly,
                 runEnded, lastTick, horizon, order, confirmVars, feedVars, extVars>>

\* the primary-venue writer stores a top-of-book ask
SetAsk(b, v) ==
  /\ updates < MaxUpdates
  /\ markets[b].best_ask # v
  /\ markets' = [markets EXCEPT ![b].best_ask = v]
  /\ updates' = updates + 1
  /\ UNCHANGED <<clock, eng_wake, slips, lastCond, condSince, prevAnomaly,
                 runEnded, lastTick, horizon, order, confirmVars, feedVars, extVars>>

\* var_poll_loop stores the base-notional buy price, or None when the fetch failed
SetVarBuy(b, v) ==
  /\ updates < MaxUpdates
  /\ markets[b].buy_1500 # v
  /\ markets' = [markets EXCEPT ![b].buy_1500 = v]
  /\ updates' = updates + 1
  /\ UNCHANGED <<clock, eng_wake, slips, lastCond, condSince, prevAnomaly,
                 runEnded, lastTick, horizon, order, confirmVars, feedVars, extVars>>

----------------------------------------------------------------------------
(* spread_engine_loop: one pass over all markets, then sleep(1.0).  The    *)
(* pass has no suspension point, so it is one step.  _trim_hist reads the  *)
(* clock again; the second may change during the pass, after the first k   *)
(* markets (k = Len(order): it does not).                                  *)

Pos(b) == CHOOSE i \in 1..Len(order) : order[i] = b

EngineTick(k) ==
  LET now_s == clock
      tn(b) == IF Pos(b) > k THEN clock + 1 ELSE clock
      late  == IF k < Len(order) THEN 1 ELSE 0
  IN  /\ clock >= eng_wake
      /\ late = 1 => (slips < MaxSlips /\ clock < horizon)
      /\ markets' = [b \in Bases |-> EngineMarket(markets[b], now_s, tn(b))]
      /\ clock' = clock + late
      /\ slips' = slips + late
      /\ eng_wake' = clock' + 1
      /\ lastCond' = [b \in Bases |-> CondSeen(markets[b], now_s, tn(b))]
      /\ condSince' = [b \in Bases |->
                         IF lastCond'[b] = "T"
                         THEN (IF condSince[b] = None THEN Some(now_s) ELSE condSince[b])
                         ELSE None]
      /\ prevAnomaly' = [b \in Bases |-> markets[b].anomaly]
      /\ runEnded' = [b \in Bases |->
                        IF /\ lastCond'[b] = "F"
                           /\ condSince[b] # None
                           /\ markets[b].anomaly_started_s = condSince[b]
                        THEN Some(lastTick[1] - condSince[b][1])
                        ELSE None]
      /\ lastTick' = Some(now_s)
      /\ UNCHANGED <<updates, horizon, order, confirmVars, feedVars, extVars>>

----------------------------------------------------------------------------
(* confirm_executor_loop.  A pass runs without suspension from one await   *)
(* to the next, so each step below goes from a resumption to the next      *)
(* await (or to the sleep that ends the pass).                             *)

\* the two guards of the pass (lines 61-65): anomalous and out of cooldown
Eligible(m, now_s) ==
  /\ m.anomaly
  /\ ~(Truthy(m.last_confirm_s)
       /\ (now_s - m.last_confirm_s[1]) < VAR_CONFIRM_COOLDOWN_SEC)

\* the first position >= i of a market that passes the guards (Len + 1: none)
RECURSIVE NextEligible(_, _, _)
NextEligible(ms, i, now_s) ==
  IF i > Len(order) THEN i
  ELSE IF Eligible(ms[order[i]], now_s) THEN i
  ELSE NextEligible(ms, i + 1, now_s)

\* the for loop goes on from position i until it awaits or the pass ends
ConfirmGo(ms, i, now_s) ==
  LET j == NextEligible(ms, i, now_s) IN
    IF j <= Len(order)
    THEN /\ pc_c' = "await_var"
         /\ c_idx' = j
         /\ c_start' = clock
         /\ c_wake' = c_wake
    ELSE /\ pc_c' = "sleep"
         /\ c_idx' = 0
         /\ c_start' = c_start
         /\ c_wake' = clock + 1

\* top of the while loop: now_s = _now_s(), then the for loop
ConfirmPassStart ==
  /\ pc_c = "sleep"
  /\ clock >= c_wake
  /\ c_now' = clock
  /\ prevRes' = res
  /\ res' = [b \in Bases |-> "-"]
  /\ c_var' = None
  /\ ConfirmGo(markets, 1, clock)
  /\ UNCHANGED <<engineVars, feedVars, extVars, lastDone>>

\* outcomes of a quote callback: it raises, returns None, or returns a price
CbOutcomes == {"raise", "none", "price"}

\* var_buy = await var_get_quote_cb(base, CONFIRM_NOTIONAL_USD) returns
VarQuoteReturn(o) ==
  /\ pc_c = "await_var"
  /\ IF o = "raise"
     THEN /\ res' = [res EXCEPT ![order[c_idx]] = "fail"]
          /\ c_var' = None
          /\ ConfirmGo(markets, c_idx + 1, c_now)
     ELSE /\ c_var' = IF o = "none" THEN None ELSE Some(10030)
          /\ pc_c' = "await_vwap"
          /\ UNCHANGED <<res, c_idx, c_start, c_wake>>
  /\ UNCHANGED <<engineVars, feedVars, extVars, c_now, lastDone, prevRes>>

\* ConfirmInfo(...) of lines 72-79
MakeConfirm(var_buy, vwap) ==
  [notional |-> CONFIRM_NOTIONAL_USD,
   var_buy |-> Some(var_buy),
   lighter_vwap_ask |-> Some(vwap),
   spread_usd_exec |-> Some(var_buy - vwap),
   spread_bps_exec |-> calc_bps(var_buy - vwap, vwap),
   ts_ms |-> clock * 1000]

\* lines 68-80 with a failed attempt stamped like a successful one
ConfirmWrite_StampOnFail(m, var_buy, vwap, now_s) ==
  IF var_buy = None \/ vwap = None
  THEN [m EXCEPT !.last_confirm_s = Some(now_s)]
  ELSE [m EXCEPT !.confirm = Some(MakeConfirm(var_buy[1], vwap[1])),
                 !.last_confirm_s = Some(now_s)]

\* lines 68-80 without the assignment of last_confirm_s
ConfirmWrite_InfoOnly(m, var_buy, vwap, now_s) ==
  IF var_buy = None \/ vwap = None
  THEN m
  ELSE [m EXCEPT !.confirm = Some(MakeConfirm(var_buy[1], vwap[1]))]

\* lines 68-80 with the anomaly flag tested again after the awaits
ConfirmWrite_Recheck(m, var_buy, vwap, now_s) ==
  IF var_buy = None \/ vwap = None \/ ~m.anomaly
  THEN m
  ELSE [m EXCEPT !.confirm = Some(MakeConfirm(var_buy[1], vwap[1])),
                 !.last_confirm_s = Some(now_s)]

\* lines 68-80, once both callbacks have returned var_buy and vwap (each None
\* or a price): `continue` when either is None, else the write
ConfirmWrite(m, var_buy, vwap, now_s) ==
  IF var_buy = None \/ vwap = None
  THEN m
  ELSE [m EXCEPT !.confirm = Some(MakeConfirm(var_buy[1], vwap[1])),
                 !.last_confirm_s = Some(now_s)]

\* vwap = await lighter_vwap_cb(base, CONFIRM_NOTIONAL_USD) returns or raises
VwapReturn(o) ==
  LET b    == order[c_idx]
      vwap == IF o = "price" THEN Some(10000) ELSE None
      ok   == o = "price" /\ c_var # None
  IN  /\ pc_c = "await_vwap"
      /\ markets' = IF o = "raise" THEN markets
                    ELSE [markets EXCEPT ![b] = ConfirmWrite(@, c_var, vwap, c_now)]
      /\ res' = [res EXCEPT ![b] = IF ok THEN "ok" ELSE "fail"]
      /\ lastDone' = IF ok THEN [lastDone EXCEPT ![b] = Some(clock)] ELSE lastDone
      /\ c_var' = None
      /\ ConfirmGo(markets', c_idx + 1, c_now)
      /\ UNCHANGED <<clock, eng_wake, updates, slips, lastCond, condSince,
                     prevAnomaly, runEnded, lastTick, horizon, order, c_now, prevRes,
                     feedVars, extVars>>

----------------------------------------------------------------------------
(* Specifications *)

NextEngine ==
  \/ AdvanceClock
  \/ \E b \in Bases : \E v \in AskVals : SetAsk(b, v)
  \/ \E b \in Bases : \E v \in VarVals : SetVarBuy(b, v)
  \/ \E k \in 0..Len(order) : EngineTick(k)

NextConfirm ==
  \/ NextEngine
  \/ ConfirmPassStart
  \/ \E o \in CbOutcomes : VarQuoteReturn(o)
  \/ \E o \in CbOutcomes : VwapReturn(o)

SpecEngine == InitEngine /\ [][NextEngine]_vars

SpecConfirm == InitConfirm /\ [][NextConfirm]_vars

\* The engine alone on one market whose inputs may be missing or zero from
\* the start: the writers have stored any of their values after a warm-up
\* (or none), and one more write is left.
GapVarVals == VarVals \cup {Some(0)}

InitGap ==
  \E n \in {0, WarmLen}, a \in AskVals, v \in GapVarVals :
    /\ order = <<"BTC">>
    /\ clock = Boot + n
    /\ markets = [b \in Bases |-> [WarmMarket(n) EXCEPT !.best_ask = a, !.buy_1500 = v]]
    /\ eng_wake = Boot + n
    /\ updates = MaxUpdates - 1
    /\ slips = 0
    /\ lastCond = [b \in Bases |-> "NA"]
    /\ condSince = [b \in Bases |-> None]
    /\ prevAnomaly = [b \in Bases |-> FALSE]
    /\ runEnded = [b \in Bases |-> None]
    /\ lastTick = IF n = 0 THEN None ELSE Some(Boot + n - 1)
    /\ horizon = Boot + n + MaxTime
    /\ ConfirmOff
    /\ FeedOff
    /\ ExtOff

NextGap ==
  \/ AdvanceClock
  \/ \E b \in Bases : \E v \in AskVals : SetAsk(b, v)
  \/ \E b \in Bases : \E v \in GapVarVals : SetVarBuy(b, v)
  \/ \E k \in 0..Len(order) : EngineTick(k)

SpecGap == InitGap /\ [][NextGap]_vars

----------------------------------------------------------------------------
(* app/feeds/lighter_ws.py: LighterWSState and _handle_message.            *)
(*                                                                         *)
(* A JSON value is None (null), <<"str", s>>, <<"num", n>>, <<"list", q>>  *)
(* or <<"obj", pairs>>, pairs being the <<key, value>> of the object in    *)
(* their order.  A raw message is <<"text">> (json.loads fails on it) or   *)
(* <<"json", value>>.  Numbers are integers.                               *)

JStr(s) == <<"str", s>>

JNum(n) == <<"num", n>>

JList(q) == <<"list", q>>

JObj(pairs) == <<"obj", pairs>>

Tag(x) == IF x = None THEN "null" ELSE x[1]

\* isinstance(x, dict)
IsDict(x) == Tag(x) = "obj"

\* d.get(k) of a dict d
Get(d, k) ==
  LET pairs == d[2] IN
    IF \E i \in 1..Len(pairs) : pairs[i][1] = k
    THEN pairs[CHOOSE i \in 1..Len(pairs) : pairs[i][1] = k][2]
    ELSE None

\* truth value of a JSON value: None, "", 0, [] and {} are falsy
JTruthy(x) ==
  CASE Tag(x) = "null" -> FALSE
    [] Tag(x) = "str"  -> x[2] # ""
    [] Tag(x) = "num"  -> x[2] # 0
    [] OTHER           -> x[2] # << >>

\* a or b
Or(a, b) == IF JTruthy(a) THEN a ELSE b

\* the strings int() accepts, among the strings of the model
Digits == <<"0", "1", "2", "3", "4", "5", "6", "7", "8", "9">>

\* int(s) of a string: None when it raises
ParseInt(s) ==
  IF \E i \in 1..Len(Digits) : Digits[i] = s
  THEN Some((CHOOSE i \in 1..Len(Digits) : Digits[i] = s) - 1)
  ELSE None

\* float(s) of a string: None when it raises
ParseFloat(s) ==
  IF s = "100" THEN Some(100)
  ELSE IF s = "200" THEN Some(200)
  ELSE ParseInt(s)

\* _to_float(x)
to_float(x) ==
  CASE Tag(x) = "num" -> Some(x[2])
    [] Tag(x) = "str" -> ParseFloat(x[2])
    [] OTHER          -> None

\* int(mid) inside try/except: None when it raises
to_int(x) ==
  CASE Tag(x) = "num" -> Some(x[2])
    [] Tag(x) = "str" -> ParseInt(x[2])
    [] OTHER          -> None

bid_keys == <<"best_bid", "bid", "bid_price", "bestBid", "bestBidPrice">>

ask_keys == <<"best_ask", "ask", "ask_price", "bestAsk", "bestAskPrice">>

\* the for loop over candidate keys: the first key present with a non-null
\* value decides, whether or not it converts
RECURSIVE FirstPresent(_, _, _)
FirstPresent(d, keys, i) ==
  IF i > Len(keys) THEN None
  ELSE IF Get(d, keys[i]) # None THEN to_float(Get(d, keys[i]))
  ELSE FirstPresent(d, keys, i + 1)

\* _pick_best_bid_ask(d): <<bid, ask>>
pick_best_bid_ask(d) ==
  LET bid == FirstPresent(d, bid_keys, 1)
      ask == FirstPresent(d, ask_keys, 1)
      mp  == to_float(Or(Get(d, "mark_price"), Get(d, "markPrice")))
  IN  IF bid = None \/ ask = None
      THEN <<IF bid = None THEN mp ELSE bid, IF ask = None THEN mp ELSE ask>>
      ELSE <<bid, ask>>

\* the dict `out` of _handle_message for an entry v with market id mid
Normalize(mid, v) ==
  LET ba == pick_best_bid_ask(v) IN
    [symbol |-> Get(v, "symbol"),
     market_id |-> mid,
     index_price |-> to_float(Or(Get(v, "index_price"), Get(v, "indexPrice"))),
     mark_price |-> to_float(Or(Get(v, "mark_price"), Get(v, "markPrice"))),
     best_bid |-> ba[1],
     best_ask |-> ba[2],
     daily_quote_volume |->
       to_float(Or(Or(Or(Get(v, "daily_quote_volume"), Get(v, "dailyQuoteVolume")),
                      Get(v, "quote_volume_24h")),
                   Get(v, "quoteVolume24h")))]

\* the market id of an entry k: v whose v is a dict (lines 135-145): from
\* v["market_id"] when present and not null, else from the key; None when
\* the conversion raises
EntryId(k, v) ==
  IF Get(v, "market_id") = None THEN ParseInt(k) ELSE to_int(Get(v, "market_id"))

\* update_market that keeps the written market only
update_market_Only(st, mid, stats, now) ==
  [st EXCEPT !.market_stats = [id \in {mid} |-> stats],
             !.markets_seen = st.markets_seen \cup {mid},
             !.last_message_ts = Some(now)]

\* LighterWSState.update_market
update_market(st, mid, stats, now) ==
  [st EXCEPT !.market_stats = [id \in (DOMAIN st.market_stats) \cup {mid} |->
                                 IF id = mid THEN stats ELSE st.market_stats[id]],
             !.markets_seen = st.markets_seen \cup {mid},
             !.last_message_ts = Some(now)]

\* the for loop of _handle_message with `break` for `continue`
RECURSIVE HandleEntries_Break(_, _, _, _)
HandleEntries_Break(st, entries, i, now) ==
  IF i > Len(entries) THEN st
  ELSE LET k == entries[i][1]
           v == entries[i][2]
       IN  IF ~IsDict(v) THEN st
           ELSE IF EntryId(k, v) = None THEN st
           ELSE HandleEntries_Break(
                  update_market(st, EntryId(k, v)[1], Normalize(EntryId(k, v)[1], v), now),
                  entries, i + 1, now)

\* the for loop of _handle_message over market_stats.items(), from entry i on
RECURSIVE HandleEntries(_, _, _, _)
HandleEntries(st, entries, i, now) ==
  IF i > Len(entries) THEN st
  ELSE LET k == entries[i][1]
           v == entries[i][2]
       IN  IF ~IsDict(v) THEN HandleEntries(st, entries, i + 1, now)
           ELSE IF EntryId(k, v) = None THEN HandleEntries(st, entries, i + 1, now)
           ELSE HandleEntries(
                  update_market(st, EntryId(k, v)[1], Normalize(EntryId(k, v)[1], v), now),
                  entries, i + 1, now)

\* the strings of the model in which "market_stats" occurs
MarketStatsChannels == {"market_stats:all", "market_stats/all", "market_stats"}

\* `"market_stats" in channel`: "yes", "no", or "raise" (TypeError: a number
\* is not iterable).  A string is searched, a list or dict is looked up.
ContainsMarketStats(channel) ==
  CASE Tag(channel) = "str"  -> IF channel[2] \in MarketStatsChannels THEN "yes" ELSE "no"
    [] Tag(channel) = "list" ->
         IF \E i \in 1..Len(channel[2]) : channel[2][i] = JStr("market_stats")
         THEN "yes" ELSE "no"
    [] Tag(channel) = "obj"  ->
         IF \E i \in 1..Len(channel[2]) : channel[2][i][1] = "market_stats"
         THEN "yes" ELSE "no"
    [] OTHER                 -> "raise"

\* the connected branch without the set_error(None)
OnConnected_KeepError(st, msg) ==
  [st EXCEPT !.session_id = Get(msg, "session_id")]

\* the connected branch (lines 111-114): set_session, set_error(None)
OnConnected(st, msg) ==
  [st EXCEPT !.session_id = Get(msg, "session_id"), !.last_error = None]

\* _handle_message(raw) on the state st at time now: <<"ok" or "raise", state>>
handle_message(st, raw, now) ==
  IF raw[1] = "text" THEN <<"ok", st>>
  ELSE LET msg == raw[2] IN
    IF IsDict(msg) /\ Get(msg, "type") = JStr("connected")
    THEN <<"ok", OnConnected(st, msg)>>
    ELSE IF ~IsDict(msg) THEN <<"ok", st>>
    ELSE LET c == ContainsMarketStats(Or(Get(msg, "channel"), JStr(""))) IN
      IF c = "raise" THEN <<"raise", st>>
      ELSE IF c = "no" THEN <<"ok", st>>
      ELSE IF ~IsDict(Get(msg, "market_stats")) THEN <<"ok", st>>
      ELSE <<"ok", HandleEntries(st, Get(msg, "market_stats")[2], 1, now)>>

\* market_stats payloads
StatsA ==
  << <<"1", JObj(<< <<"symbol", JStr("ETH")>>, <<"mark_price", JStr("100")>> >>)>>,
     <<"2", JNum(5)>>,
     <<"x", JObj(<< <<"symbol", JStr("BAD")>> >>)>>,
     <<"3", JObj(<< <<"market_id", JStr("zz")>>, <<"symbol", JStr("BAD")>> >>)>>,
     <<"4", JObj(<< <<"market_id", JNum(2)>>, <<"symbol", JStr("BTC")>>,
                    <<"best_bid", JNum(50)>>, <<"best_ask", JNum(52)>> >>)>> >>

StatsB ==
  << <<"7", JObj(<< <<"market_id", JStr("1")>>, <<"symbol", JStr("ETH")>>,
                    <<"mark_price", JNum(200)>> >>)>>,
     <<"1", JObj(<< <<"symbol", JStr("SOL")>>, <<"index_price", JStr("9")>> >>)>> >>

\* raw messages
MsgText == <<"text">>

MsgArray == <<"json", JList(<<JNum(1)>>)>>

MsgConnected ==
  <<"json", JObj(<< <<"type", JStr("connected")>>, <<"session_id", JStr("s1")>> >>)>>

MsgConnectedStats ==
  <<"json", JObj(<< <<"type", JStr("connected")>>,
                    <<"channel", JStr("market_stats:all")>>,
                    <<"market_stats", JObj(StatsB)>> >>)>>

MsgOtherChannel == <<"json", JObj(<< <<"channel", JStr("trade:1")>> >>)>>

MsgNumChannel == <<"json", JObj(<< <<"channel", JNum(5)>> >>)>>

MsgStatsList ==
  <<"json", JObj(<< <<"channel", JStr("market_stats:all")>>,
                    <<"market_stats", JList(<<JNum(1)>>)>> >>)>>

MsgStatsA ==
  <<"json", JObj(<< <<"channel", JStr("market_stats:all")>>,
                    <<"market_stats", JObj(StatsA)>> >>)>>

MsgStatsB ==
  <<"json", JObj(<< <<"type", JStr("update")>>,
                    <<"channel", JList(<<JStr("market_stats")>>)>>,
                    <<"market_stats", JObj(StatsB)>> >>)>>

\* the entries of the market_stats payload of a raw message that carries one
\* (a JSON object, not a connection acknowledgement, whose channel contains
\* "market_stats" and whose market_stats is a mapping); << >> for any other
StatsEntries(raw) ==
  IF raw[1] # "json" THEN << >>
  ELSE IF ~IsDict(raw[2]) THEN << >>
  ELSE IF Get(raw[2], "type") = JStr("connected") THEN << >>
  ELSE IF ContainsMarketStats(Or(Get(raw[2], "channel"), JStr(""))) # "yes" THEN << >>
  ELSE IF ~IsDict(Get(raw[2], "market_stats")) THEN << >>
  ELSE Get(raw[2], "market_stats")[2]

\* an entry whose value is a mapping and whose market id converts
WellFormed(e) == IsDict(e[2]) /\ EntryId(e[1], e[2]) # None

\* the market ids of the well-formed entries
IdsOf(entries) ==
  {EntryId(entries[i][1], entries[i][2])[1] :
     i \in {j \in 1..Len(entries) : WellFormed(entries[j])}}

\* the position of the last well-formed entry for id
LastIdx(entries, id) ==
  CHOOSE i \in 1..Len(entries) :
    /\ WellFormed(entries[i])
    /\ EntryId(entries[i][1], entries[i][2]) = Some(id)
    /\ \A j \in (i + 1)..Len(entries) :
         ~(WellFormed(entries[j]) /\ EntryId(entries[j][1], entries[j][2]) = Some(id))

----------------------------------------------------------------------------
(* app/feeds/lighter_ws.py: lighter_ws_loop, and _shutdown of app/main.py  *)

\* backoff = 1.0, in units of 10^-5 s
InitialBackoff == 100000

\* the cap 15.0 of the backoff, in units of 10^-5 s
BackoffCap == 1500000

\* min(backoff * 1.6, 15.0) without the cap
NextBackoff_NoCap(b) == (b * 16) \div 10

\* backoff = min(backoff * 1.6, 15.0).  The division is exact for every value
\* below the cap that the loop reaches (1.6^k * 10^5 is whole for k <= 5).
NextBackoff(b) == Min((b * 16) \div 10, BackoffCap)

\* a successful connect that keeps the backoff
ConnectedBackoff_Keep(b) == b

\* backoff = 1.0 after a successful connect (line 188)
ConnectedBackoff(b) == InitialBackoff

\* the task has started: backoff = 1.0, set_error(None), and it is connecting
InitFeed ==
  /\ pc_f = "connecting"
  /\ backoff = InitialBackoff
  /\ session_id = None
  /\ last_error = None
  /\ stop = FALSE
  /\ cancel_req = FALSE
  /\ fails = 0
  /\ msgs = 0
  /\ streak = 0
  /\ exit_from = "-"
  /\ order = << >>
  /\ clock = Boot
  /\ markets = << >>
  /\ eng_wake = 0
  /\ updates = 0
  /\ slips = 0
  /\ lastCond = << >>
  /\ condSince = << >>
  /\ prevAnomaly = << >>
  /\ runEnded = << >>
  /\ lastTick = None
  /\ horizon = Boot + MaxFeedTime
  /\ ConfirmOff
  /\ ExtOff

\* the loop leaves its while with STATE.last_error = le:
\* set_error(STATE.last_error or "stopped")
FeedReturns(le) ==
  /\ pc_f' = "done"
  /\ last_error' = IF le = None THEN Some("stopped") ELSE le

\* the test of the outer while
FeedLoopTop ==
  IF stop THEN FeedReturns(last_error)
  ELSE pc_f' = "connecting" /\ last_error' = last_error

\* websockets.connect succeeds: backoff is reset and the subscription sent
FeedConnectOk ==
  /\ pc_f = "connecting"
  /\ ~cancel_req
  /\ backoff' = ConnectedBackoff(backoff)
  /\ streak' = 0
  /\ pc_f' = "recv"
  /\ UNCHANGED <<session_id, last_error, stop, cancel_req, fails, msgs, exit_from,
                 engineVars, confirmVars, extVars>>

\* an exception in the try body (connect, send or recv): the error is
\* recorded and the loop sleeps for the current backoff
FeedFail(e) ==
  /\ pc_f \in {"connecting", "recv"}
  /\ ~cancel_req
  /\ fails < MaxFails
  /\ last_error' = Some(e)
  /\ pc_f' = "sleeping"
  /\ fails' = fails + 1
  /\ streak' = streak + 1
  /\ UNCHANGED <<backoff, session_id, stop, cancel_req, msgs, exit_from,
                 engineVars, confirmVars, extVars>>

\* asyncio.sleep(backoff) is over: the backoff grows, and the while goes on
FeedSleepDone ==
  /\ pc_f = "sleeping"
  /\ ~cancel_req
  /\ backoff' = NextBackoff(backoff)
  /\ FeedLoopTop
  /\ UNCHANGED <<session_id, stop, cancel_req, fails, msgs, streak, exit_from,
                 engineVars, confirmVars, extVars>>

\* the raw messages the feed may deliver
FeedMsgs ==
  {MsgText, MsgArray, MsgConnected, MsgConnectedStats, MsgOtherChannel,
   MsgNumChannel, MsgStatsList, MsgStatsA, MsgStatsB}

\* str of the exception `"market_stats" not in 5` raises, as set_error stores it
ChannelTypeError == "TypeError: argument of type 'int' is not iterable"

\* ws.recv() returns a message and _handle_message runs; then the inner while
\* goes on, or what _handle_message raised is handled like any failure of the
\* try body: set_error, then the backoff sleep
RecvMsg(m) ==
  LET st == [session_id |-> session_id, last_error |-> last_error,
             last_message_ts |-> last_message_ts,
             market_stats |-> market_stats, markets_seen |-> markets_seen]
      r  == handle_message(st, m, clock)
      es == StatsEntries(m)
  IN  /\ pc_f = "recv"
      /\ ~cancel_req
      /\ msgs < MaxMsgs
      /\ msgs' = msgs + 1
      /\ session_id' = r[2].session_id
      /\ last_message_ts' = r[2].last_message_ts
      /\ market_stats' = r[2].market_stats
      /\ markets_seen' = r[2].markets_seen
      /\ IF r[1] = "raise"
         THEN /\ last_error' = Some(ChannelTypeError)
              /\ pc_f' = "sleeping"
              /\ streak' = streak + 1
         ELSE /\ streak' = streak
              /\ IF stop
                 THEN FeedReturns(r[2].last_error)
                 ELSE pc_f' = "recv" /\ last_error' = r[2].last_error
      /\ f_last' = m
      /\ f_latest' = [id \in (DOMAIN f_latest) \cup IdsOf(es) |->
                        IF id \in IdsOf(es) THEN es[LastIdx(es, id)] ELSE f_latest[id]]
      /\ UNCHANGED <<backoff, stop, cancel_req, fails, exit_from,
                     engineVars, confirmVars, histVars, batchVars, statVars, cacheVars>>

\* a second passes (time.time() of update_market)
FeedClock ==
  /\ clock < horizon
  /\ clock' = clock + 1
  /\ UNCHANGED <<markets, eng_wake, updates, slips, lastCond, condSince, prevAnomaly,
                 runEnded, lastTick, horizon, order, confirmVars, feedVars, extVars>>

\* _shutdown without the cancel of the task
Shutdown_NoCancel ==
  /\ ~stop
  /\ pc_f \in {"connecting", "recv", "sleeping"}
  /\ stop' = TRUE
  /\ UNCHANGED <<pc_f, backoff, session_id, last_error, cancel_req, fails, msgs, streak,
                 exit_from, engineVars, confirmVars, extVars>>

\* _shutdown (app/main.py): _stop_event.set() and _lighter_task.cancel()
Shutdown ==
  /\ ~stop
  /\ pc_f \in {"connecting", "recv", "sleeping"}
  /\ stop' = TRUE
  /\ cancel_req' = TRUE
  /\ UNCHANGED <<pc_f, backoff, session_id, last_error, fails, msgs, streak,
                 exit_from, engineVars, confirmVars, extVars>>

\* CancelledError is thrown at the await the task is suspended in: in the try
\* body it is caught (break, then the final set_error); in the sleep of the
\* except handler it is not, and ends the task
FeedCancelled ==
  /\ cancel_req
  /\ pc_f \in {"connecting", "recv", "sleeping"}
  /\ cancel_req' = FALSE
  /\ exit_from' = pc_f
  /\ IF pc_f = "sleeping"
     THEN pc_f' = "cancelled" /\ last_error' = last_error
     ELSE FeedReturns(last_error)
  /\ UNCHANGED <<backoff, session_id, stop, fails, msgs, streak,
                 engineVars, confirmVars, extVars>>

FeedErrors == {"OSError: connect failed", "ConnectionClosedError: no close frame"}

NextFeed ==
  \/ FeedConnectOk
  \/ \E e \in FeedErrors : FeedFail(e)
  \/ FeedSleepDone
  \/ \E m \in FeedMsgs : RecvMsg(m)
  \/ Shutdown
  \/ FeedCancelled
  \/ FeedClock

SpecFeed == InitFeed /\ [][NextFeed]_vars

\* the event loop runs a task whose cancellation is pending
SpecFeedFair == SpecFeed /\ WF_vars(FeedCancelled)

----------------------------------------------------------------------------
(* app/main.py: batch quote ingestion (/ingest/var_batch) and the helpers  *)
(* it calls.  A float of main.py is an integer number of tenths, or NaN;   *)
(* the floats of the feed store are whole numbers and are read as tenths.  *)
(* spread_bps, a quotient, is kept as the pair <<numerator, denominator>>. *)
(* VAR_BATCH and each deque are sequences in insertion order.              *)

\* a - b
FSub(a, b) == IF a = NaN \/ b = NaN THEN NaN ELSE a - b

\* a > b
FGt(a, b) == a # NaN /\ b # NaN /\ a > b

\* a <= b
FLe(a, b) == a # NaN /\ b # NaN /\ a <= b

\* truth value of a float: 0.0 is falsy, NaN is not
FTruthy(a) == a # 0

\* float(s) of a stripped string, in tenths: None when it raises
ParseF(s) ==
  CASE s = "nan"    -> Some(NaN)
    [] s = "1499.6" -> Some(14996)
    [] s = "1500.5" -> Some(15005)
    [] s = "1501.5" -> Some(15015)
    [] OTHER        -> IF ParseFloat(s) = None THEN None ELSE Some(10 * ParseFloat(s)[1])

\* _to_f(x) of a JSON value
to_f(x) ==
  CASE Tag(x) = "num" -> Some(10 * x[2])
    [] Tag(x) = "str" -> ParseF(x[2])
    [] OTHER          -> None

\* _to_f(x) of a float of the feed store
to_f_stored(o) == IF o = None THEN None ELSE Some(10 * o[1])

\* round(f) of a float in tenths: to the nearest integer, a tie to the even one
RoundHalfEven(t) ==
  LET q == t \div 10
      r == t % 10
  IN  IF r < 5 THEN q
      ELSE IF r > 5 THEN q + 1
      ELSE IF q % 2 = 0 THEN q ELSE q + 1

\* _notional_key(notional): <<"ok", key>>, or <<"raise">> (int(round(nan))
\* raises ValueError, which nothing in ingest_var_batch catches)
notional_key(x) ==
  LET f == to_f(x) IN
    IF f = None THEN <<"ok", 0>>
    ELSE IF f[1] = NaN THEN <<"raise">>
    ELSE <<"ok", RoundHalfEven(f[1])>>

\* s.upper().strip(), for the strings of the model
UpperStrip(s) ==
  CASE s \in {"eth", " eth ", "ETH"} -> "ETH"
    [] s \in {"btc", "BTC"}          -> "BTC"
    [] s \in {"sol", "SOL"}          -> "SOL"
    [] s \in {"", " "}               -> ""
    [] OTHER                         -> s

\* str(x or "").upper().strip() of a JSON value that is a string or null
BaseOf(x) == UpperStrip(Or(x, JStr(""))[2])

\* _get_lighter_price(base) on market_stats ms: [bid, ask, mark].  The
\* stores of the model hold a symbol under one id at most, so the order of
\* ms.values() does not matter.
get_lighter_price(ms, base) ==
  LET hits == {id \in DOMAIN ms : BaseOf(ms[id].symbol) = base} IN
    IF hits = {} THEN [bid |-> None, ask |-> None, mark |-> None]
    ELSE LET v == ms[CHOOSE id \in hits : \A other \in hits : id <= other] IN
      [bid |-> to_f_stored(v.best_bid),
       ask |-> to_f_stored(v.best_ask),
       mark |-> to_f_stored(IF Truthy(v.mark_price) THEN v.mark_price ELSE v.index_price)]

\* ref = lp.get("mark") or lp.get("bid") or lp.get("ask")
RefPrice(lp) ==
  IF Truthy(lp.mark) THEN lp.mark ELSE IF Truthy(lp.bid) THEN lp.bid ELSE lp.ask

\* ref and abs((ask + bid) / 2.0 - float(ref)) / float(ref) > 0.05, in
\* integers: |ask + bid - 2 ref| / (2 ref) > 1/20
OffMark(bid, ask, ref) ==
  /\ Truthy(ref)
  /\ bid # NaN /\ ask # NaN /\ ref[1] # NaN
  /\ ref[1] > 0
  /\ 10 * Abs(ask + bid - 2 * ref[1]) > ref[1]

\* the position of key in the dict vb (0: absent)
KeyIdx(vb, key) ==
  IF \E i \in 1..Len(vb) : vb[i][1] = key
  THEN CHOOSE i \in 1..Len(vb) : vb[i][1] = key
  ELSE 0

\* DictSet on a dict that holds one key at most: a new key evicts the old
DictSet_Evict(vb, key, rec) ==
  IF KeyIdx(vb, key) = 0 THEN <<<<key, rec>>>>
  ELSE [vb EXCEPT ![KeyIdx(vb, key)] = <<key, rec>>]

\* VAR_BATCH[key] = rec: a new key goes last, an old one keeps its place
DictSet(vb, key, rec) ==
  IF KeyIdx(vb, key) = 0 THEN Append(vb, <<key, rec>>)
  ELSE [vb EXCEPT ![KeyIdx(vb, key)] = <<key, rec>>]

\* the fallback loop of _get_var_quote with d <= best_d for d < best_d
RECURSIVE NearestFrom_LastTie(_, _, _, _, _)
NearestFrom_LastTie(vb, base, n, i, best) ==
  IF i > Len(vb) THEN (IF best = 0 THEN None ELSE Some(vb[best][2]))
  ELSE IF vb[i][1][1] # base THEN NearestFrom_LastTie(vb, base, n, i + 1, best)
  ELSE IF best = 0 \/ Abs(vb[i][1][2] - n) <= Abs(vb[best][1][2] - n)
       THEN NearestFrom_LastTie(vb, base, n, i + 1, i)
  ELSE NearestFrom_LastTie(vb, base, n, i + 1, best)

\* the fallback loop of _get_var_quote from entry i on, best being the
\* position of the nearest entry so far (0: none)
RECURSIVE NearestFrom(_, _, _, _, _)
NearestFrom(vb, base, n, i, best) ==
  IF i > Len(vb) THEN (IF best = 0 THEN None ELSE Some(vb[best][2]))
  ELSE IF vb[i][1][1] # base THEN NearestFrom(vb, base, n, i + 1, best)
  ELSE IF best = 0 \/ Abs(vb[i][1][2] - n) < Abs(vb[best][1][2] - n)
       THEN NearestFrom(vb, base, n, i + 1, i)
  ELSE NearestFrom(vb, base, n, i + 1, best)

\* _get_var_quote(base, notional_int): None or <<record>>
get_var_quote(vb, base, n) ==
  LET b == UpperStrip(base) IN
    IF b = "" THEN None
    ELSE IF KeyIdx(vb, <<b, n>>) # 0 THEN Some(vb[KeyIdx(vb, <<b, n>>)][2])
    ELSE NearestFrom(vb, b, n, 1, 0)

\* the modes ingest_var_batch pushes chart points for
PushModes == <<"lighter_bid_minus_var_sell", "lighter_ask_minus_var_buy">>

\* spread_usd / ref * 10000.0
Bps(usd, ref) == IF usd = NaN \/ ref = NaN THEN NaN ELSE <<usd * 10000, ref>>

\* _compute_spread(base, notional, mode) for the two modes pushed, on the
\* quote store vb and market_stats ms: <<spread_usd, spread_bps>>
compute_spread(vb, ms, base, n, mode) ==
  LET lp  == get_lighter_price(ms, base)
      vq  == get_var_quote(vb, base, n)
      lv  == IF mode = "lighter_bid_minus_var_sell" THEN lp.bid ELSE lp.ask
      vv  == IF vq = None THEN None
             ELSE IF mode = "lighter_bid_minus_var_sell" THEN Some(vq[1].bid)
             ELSE Some(vq[1].ask)
      usd == IF lv # None /\ vv # None THEN Some(FSub(lv[1], vv[1])) ELSE None
      ref == IF lv # None /\ vv # None /\ FTruthy(vv[1]) THEN vv ELSE None
  IN  <<usd, IF usd # None /\ ref # None THEN Some(Bps(usd[1], ref[1])) ELSE None>>

\* deque(maxlen=MAX_POINTS) with SPREAD_SAMPLE_EVERY_S at its default 2.0
MAX_POINTS == 3650

\* _push_point on deques without a maxlen
push_point_Unbounded(ss, base, mode, usd, bps, now_ms) ==
  IF usd = None \/ bps = None \/ base = "" THEN ss
  ELSE LET key == <<base, mode>>
           dq  == IF KeyIdx(ss, key) = 0 THEN << >> ELSE ss[KeyIdx(ss, key)][2]
       IN  DictSet(ss, key, Append(dq, <<now_ms, usd[1], bps[1]>>))

\* _push_point(base, mode, spread_usd, spread_bps) on the series ss
push_point(ss, base, mode, usd, bps, now_ms) ==
  IF usd = None \/ bps = None \/ base = "" THEN ss
  ELSE LET key == <<base, mode>>
           dq  == IF KeyIdx(ss, key) = 0 THEN << >> ELSE ss[KeyIdx(ss, key)][2]
           pt  == <<now_ms, usd[1], bps[1]>>
       IN  DictSet(ss, key,
                   IF Len(dq) >= MAX_POINTS THEN Append(Tail(dq), pt) ELSE Append(dq, pt))

\* the two _push_point calls after a record is stored
PushBoth(st, ms, base, n, now_ms) ==
  LET s1 == compute_spread(st.vb, ms, base, n, PushModes[1])
      p1 == push_point(st.ss, base, PushModes[1], s1[1], s1[2], now_ms)
      s2 == compute_spread(st.vb, ms, base, n, PushModes[2])
  IN  [st EXCEPT !.ss = push_point(p1, base, PushModes[2], s2[1], s2[2], now_ms)]

\* the body of the for loop of ingest_var_batch for the record q, on
\* st = [vb, ab, ss, stored, raised] (VAR_BATCH, ACTIVE_BASES, SPREAD_SERIES,
\* the count, whether an exception has ended the request)
IngestOne(st, ms, q, now_ms) ==
  IF ~IsDict(q) THEN st
  ELSE LET base == BaseOf(Get(q, "base")) IN
    IF base = "" THEN st
    ELSE LET nk == notional_key(Or(Or(Get(q, "notional_usd"), Get(q, "notional")), JNum(0)))
             b0  == to_f(Get(q, "bid"))
             a0  == to_f(Get(q, "ask"))
             sw  == b0 # None /\ a0 # None /\ FGt(b0[1], a0[1])
             bid == IF sw THEN a0 ELSE b0
             ask == IF sw THEN b0 ELSE a0
         IN
      IF nk[1] = "raise" THEN [st EXCEPT !.raised = TRUE]
      ELSE IF bid = None \/ ask = None THEN st
      ELSE IF OffMark(bid[1], ask[1], RefPrice(get_lighter_price(ms, base)))
           THEN [st EXCEPT !.ab = st.ab \cup {base}]
      ELSE PushBoth([st EXCEPT
                       !.vb = DictSet(st.vb, <<base, nk[2]>>,
                                      [ts_ms |-> now_ms, base |-> base,
                                       notional_int |-> nk[2],
                                       bid |-> bid[1], ask |-> ask[1],
                                       mid |-> to_f(Get(q, "mid")),
                                       qty_used |-> to_f(Get(q, "qty_used"))]),
                       !.ab = st.ab \cup {base},
                       !.stored = st.stored + 1],
                    ms, base, nk[2], now_ms)

\* the for loop of ingest_var_batch from record i on; an exception ends it
RECURSIVE IngestFrom(_, _, _, _, _)
IngestFrom(st, ms, quotes, i, now_ms) ==
  IF i > Len(quotes) \/ st.raised THEN st
  ELSE IngestFrom(IngestOne(st, ms, quotes[i], now_ms), ms, quotes, i + 1, now_ms)

\* ingest_var_batch(payload) on the stores: the state after it
Ingest(vb, ab, ss, ms, payload, now_ms) ==
  LET st     == [vb |-> vb, ab |-> ab, ss |-> ss, stored |-> 0, raised |-> FALSE]
      quotes == Get(payload, "quotes")
  IN  IF Tag(quotes) # "list" THEN st
      ELSE IngestFrom(st, ms, quotes[2], 1, now_ms)

\* quote records
QSwap ==
  JObj(<< <<"base", JStr(" eth ")>>, <<"notional_usd", JStr("1499.6")>>,
          <<"bid", JNum(101)>>, <<"ask", JNum(100)>> >>)

QEth ==
  JObj(<< <<"base", JStr("ETH")>>, <<"notional_usd", JNum(1500)>>,
          <<"bid", JNum(99)>>, <<"ask", JStr("100")>>, <<"mid", JNum(100)>> >>)

QEthTie ==
  JObj(<< <<"base", JStr("eth")>>, <<"notional_usd", JStr("1500.5")>>,
          <<"bid", JNum(100)>>, <<"ask", JNum(100)>> >>)

QEthOff ==
  JObj(<< <<"base", JStr("eth")>>, <<"notional_usd", JNum(1500)>>,
          <<"bid", JNum(200)>>, <<"ask", JNum(202)>> >>)

QBtcNoBid ==
  JObj(<< <<"base", JStr("btc")>>, <<"notional_usd", JNum(1500)>>,
          <<"ask", JNum(51)>> >>)

QNoBase ==
  JObj(<< <<"base", JStr(" ")>>, <<"notional_usd", JNum(1500)>>,
          <<"bid", JNum(1)>>, <<"ask", JNum(2)>> >>)

QBtc ==
  JObj(<< <<"base", JStr("btc")>>, <<"notional", JNum(3000)>>,
          <<"bid", JNum(50)>>, <<"ask", JNum(52)>> >>)

QNanBid ==
  JObj(<< <<"base", JStr("eth")>>, <<"notional_usd", JNum(1500)>>,
          <<"bid", JStr("nan")>>, <<"ask", JNum(100)>> >>)

QNanNotionalNoBid ==
  JObj(<< <<"base", JStr("btc")>>, <<"notional_usd", JStr("nan")>>,
          <<"ask", JNum(51)>> >>)

QNanNotionalOff ==
  JObj(<< <<"base", JStr("eth")>>, <<"notional_usd", JStr("nan")>>,
          <<"bid", JNum(200)>>, <<"ask", JNum(202)>> >>)

QuoteRecs ==
  {QSwap, QEth, QEthTie, QEthOff, QBtcNoBid, QNoBase, QBtc, QNanBid,
   QNanNotionalNoBid, QNanNotionalOff, JNum(7)}

\* request bodies: {"quotes": [...]} with up to MaxQuotes records, or a
\* quotes that is no list
Payloads ==
  {JObj(<< <<"quotes", JList(qs)>> >>) :
     qs \in UNION {[1..n -> QuoteRecs] : n \in 0..MaxQuotes}}
  \cup {JObj(<< <<"quotes", JNum(5)>> >>)}

\* the records of a request body (none when quotes is no list)
QuotesOf(payload) ==
  IF Tag(Get(payload, "quotes")) = "list" THEN Get(payload, "quotes")[2] ELSE << >>

\* the feed is connected and has handled one message, raw
FeedFrom(raw, r, es) ==
      /\ pc_f = "recv"
      /\ backoff = InitialBackoff
      /\ session_id = r.session_id
      /\ last_error = r.last_error
      /\ stop = FALSE
      /\ cancel_req = FALSE
      /\ fails = 0
      /\ msgs = 1
      /\ streak = 0
      /\ exit_from = "-"
      /\ market_stats = r.market_stats
      /\ markets_seen = r.markets_seen
      /\ last_message_ts = r.last_message_ts
      /\ f_last = raw
      /\ f_latest = [id \in IdsOf(es) |-> es[LastIdx(es, id)]]

\* the feed after the message raw, its first
FeedAfter(raw) ==
  FeedFrom(raw,
           handle_message([session_id |-> None, last_error |-> None,
                           last_message_ts |-> None, market_stats |-> << >>,
                           markets_seen |-> {}], raw, Boot)[2],
           StatsEntries(raw))

InitBatch ==
  /\ \E raw \in {MsgText, MsgStatsA, MsgStatsB} : FeedAfter(raw)
  /\ BatchOff
  /\ HistOff
  /\ StatOff
  /\ CacheOff
  /\ order = << >>
  /\ clock = Boot
  /\ markets = << >>
  /\ eng_wake = 0
  /\ updates = 0
  /\ slips = 0
  /\ lastCond = << >>
  /\ condSince = << >>
  /\ prevAnomaly = << >>
  /\ runEnded = << >>
  /\ lastTick = None
  /\ horizon = Boot + MaxBatchTime
  /\ ConfirmOff

\* what the client gets for the outcome r of Ingest: the count of the
\* records stored, or an error when an exception has left the handler
Response(r) == IF r.raised THEN <<"raised">> ELSE <<"ok", r.stored>>

\* the stores and the response after a request with the outcome r of Ingest
StoresAre(r) ==
  /\ VAR_BATCH' = r.vb
  /\ ACTIVE_BASES' = r.ab
  /\ SPREAD_SERIES' = r.ss
  /\ b_resp' = Response(r)

\* POST /ingest/var_batch: the handler has no suspension point
IngestBatch(payload) ==
  /\ b_count + Len(QuotesOf(payload)) <= MaxQuotes
  /\ b_count' = b_count + Len(QuotesOf(payload))
  /\ StoresAre(Ingest(VAR_BATCH, ACTIVE_BASES, SPREAD_SERIES, market_stats, payload,
                      clock * 1000))
  /\ b_last' = payload
  /\ q_req' = None
  /\ q_resp' = <<"none">>
  /\ UNCHANGED <<engineVars, confirmVars, feedVars, histVars, storeVars, statVars, cacheVars>>

\* a second passes (_now_ms)
BatchClock ==
  /\ clock < horizon
  /\ clock' = clock + 1
  /\ q_req' = None
  /\ q_resp' = <<"none">>
  /\ UNCHANGED <<markets, eng_wake, updates, slips, lastCond, condSince, prevAnomaly,
                 runEnded, lastTick, horizon, order, confirmVars, feedVars, histVars,
                 statVars, cacheVars, storeVars, VAR_BATCH, ACTIVE_BASES, SPREAD_SERIES, b_last, b_resp,
                 b_count>>

NextBatch ==
  \/ \E payload \in Payloads : IngestBatch(payload)
  \/ BatchClock

SpecBatch == InitBatch /\ [][NextBatch]_vars

----------------------------------------------------------------------------
(* app/main.py: the chart series (SPREAD_SERIES).  SpecRing is the pushing  *)
(* of samples, on deques that are empty or one short of MAX_POINTS when the *)
(* behaviour starts; SpecSeries adds GET /api/chart/series, from empty      *)
(* series.                                                                  *)

\* _parse_window_s(window): seconds, or None when float() raises
parse_window_s(window) ==
  CASE window \in {"", "5m"} -> Some(300)
    [] window = "0"          -> Some(0)
    [] window = "1"          -> Some(1)
    [] OTHER                 -> None

\* (mode or "lighter_bid_minus_var_sell").strip()
ModeOf(mode) == IF mode = "" THEN PushModes[1] ELSE mode

\* the loop of chart_series over dq with the comparison t_ms <= cutoff_ms
ChartPoints_Strict(dq, cutoff_ms, metric) ==
  LET kept == SelectSeq(dq, LAMBDA pt : ~(pt[1] <= cutoff_ms)) IN
    [k \in 1..Len(kept) |->
       <<kept[k][1], IF metric = "bps" THEN kept[k][3] ELSE kept[k][2]>>]

\* the loop of chart_series over dq: the points {t, v} in the order of dq
ChartPoints(dq, cutoff_ms, metric) ==
  LET kept == SelectSeq(dq, LAMBDA pt : ~(pt[1] < cutoff_ms)) IN
    [k \in 1..Len(kept) |->
       <<kept[k][1], IF metric = "bps" THEN kept[k][3] ELSE kept[k][2]>>]

\* chart_series(base, window, metric, mode) on the series ss:
\* <<"ok", points, latest>>, or <<"raised">> when the window does not parse
chart_series(ss, base, window, metric, mode, now_ms) ==
  LET win_s == parse_window_s(window)
      key   == <<UpperStrip(base), ModeOf(mode)>>
  IN  IF win_s = None THEN <<"raised">>
      ELSE LET points == IF KeyIdx(ss, key) = 0 THEN << >>
                         ELSE ChartPoints(ss[KeyIdx(ss, key)][2],
                                          now_ms - win_s[1] * 1000, metric)
           IN  <<"ok", points, IF points # << >> THEN Some(points[Len(points)]) ELSE None>>

\* milliseconds between the requests that came before the behaviour
WarmStepMs == 20

\* the stores after one request holding QEth, ms before now
WarmOne(ms) ==
  Ingest(<< >>, {}, << >>, ms, JObj(<< <<"quotes", JList(<<QEth>>)>> >>),
         Boot * 1000 - WarmStepMs)

\* the series one of such a request, after n of them WarmStepMs apart
WarmSeries(one, n) ==
    [k \in 1..Len(one) |->
       <<one[k][1],
         [i \in 1..n |->
            <<Boot * 1000 - WarmStepMs * (n - i + 1), one[k][2][1][2], one[k][2][1][3]>>]>>]

\* requests of a single record, and one of two
SeriesPayloads ==
  {JObj(<< <<"quotes", JList(<<q>>)>> >>) : q \in {QEth, QSwap, QBtc, QEthOff}}
  \cup {JObj(<< <<"quotes", JList(<<QEth, QSwap>>)>> >>)}

\* queries: <<base, window, metric, mode>>
Queries ==
  {<<"eth", "5m", "bps", "">>,
   <<"eth", "0", "bps", "">>,
   <<"ETH", "1", "usd", PushModes[2]>>,
   <<" eth ", "0", "usd", PushModes[2]>>,
   <<"BTC", "1", "bps", PushModes[1]>>,
   <<"BTC", "0", "usd", "">>,
   <<"sol", "5m", "bps", "">>,
   <<"eth", "x", "bps", "">>}

\* the stores after n requests holding QEth, w being the outcome of one
WarmStores(n, w) ==
  /\ VAR_BATCH = IF n = 0 THEN << >> ELSE w.vb
  /\ ACTIVE_BASES = IF n = 0 THEN {} ELSE w.ab
  /\ SPREAD_SERIES = IF n = 0 THEN << >> ELSE WarmSeries(w.ss, n)

\* the endpoints after n requests holding QEth
SeriesAfter(n) ==
  /\ FeedAfter(MsgStatsA)
  /\ WarmStores(n, WarmOne(market_stats))
  /\ b_last = None
  /\ b_resp = <<"none">>
  /\ b_count = 0
  /\ q_req = None
  /\ q_resp = <<"none">>
  /\ HistOff
  /\ StatOff
  /\ CacheOff
  /\ order = << >>
  /\ clock = Boot
  /\ markets = << >>
  /\ eng_wake = 0
  /\ updates = 0
  /\ slips = 0
  /\ lastCond = << >>
  /\ condSince = << >>
  /\ prevAnomaly = << >>
  /\ runEnded = << >>
  /\ lastTick = None
  /\ horizon = Boot + MaxBatchTime
  /\ ConfirmOff

InitRing == \E n \in {0, MAX_POINTS - 1, MAX_POINTS} : SeriesAfter(n)

NextRing ==
  \/ \E payload \in SeriesPayloads : IngestBatch(payload)
  \/ BatchClock

SpecRing == InitRing /\ [][NextRing]_vars

InitSeries == SeriesAfter(0)

\* GET /api/chart/series: the handler has no suspension point
ChartQuery(base, window, metric, mode) ==
  /\ q_req' = <<base, window, metric, mode>>
  /\ q_resp' = chart_series(SPREAD_SERIES, base, window, metric, mode, clock * 1000)
  /\ UNCHANGED <<engineVars, confirmVars, feedVars, histVars, statVars, cacheVars, storeVars, VAR_BATCH,
                 ACTIVE_BASES, SPREAD_SERIES, b_last, b_resp, b_count>>

NextSeries ==
  \/ \E payload \in SeriesPayloads : IngestBatch(payload)
  \/ \E q \in Queries : ChartQuery(q[1], q[2], q[3], q[4])
  \/ BatchClock

SpecSeries == InitSeries /\ [][NextSeries]_vars

----------------------------------------------------------------------------
(* app/main.py: _get_var_quote on the quote stores that requests of one    *)
(* record each build.                                                      *)

QEth1000 ==
  JObj(<< <<"base", JStr("eth")>>, <<"notional_usd", JNum(1000)>>,
          <<"bid", JNum(98)>>, <<"ask", JNum(99)>> >>)

QEth2000 ==
  JObj(<< <<"base", JStr("ETH")>>, <<"notional_usd", JNum(2000)>>,
          <<"bid", JNum(100)>>, <<"ask", JNum(102)>> >>)

LookupPayloads ==
  {JObj(<< <<"quotes", JList(<<q>>)>> >>) : q \in {QEth, QEth1000, QEth2000, QBtc}}

LookupBases == {"eth", "ETH", "BTC", "sol", ""}

LookupNotionals == {1000, 1500, 2000, 3000}

\* _get_var_quote(base, notional_int), as _compute_spread calls it
LookupQuote(base, n) ==
  /\ q_req' = <<base, n>>
  /\ q_resp' = <<"quote", get_var_quote(VAR_BATCH, base, n)>>
  /\ UNCHANGED <<engineVars, confirmVars, feedVars, histVars, statVars, cacheVars, storeVars,
                 VAR_BATCH, ACTIVE_BASES, SPREAD_SERIES, b_last, b_resp, b_count>>

NextLookup ==
  \/ \E payload \in LookupPayloads : IngestBatch(payload)
  \/ \E base \in LookupBases, n \in LookupNotionals : LookupQuote(base, n)
  \/ BatchClock

SpecLookup == SeriesAfter(0) /\ [][NextLookup]_vars

----------------------------------------------------------------------------
(* The history update of the engine on its own (spread_engine.py lines     *)
(* 33-34 of a tick whose spread_bps is defined): append (now_s, bps), then *)
(* _trim_hist, for one market, under a configured window and a cadence of  *)
(* one appending tick every 1..MaxGap seconds.  The sample values play no  *)
(* part in eviction and are all 0.                                         *)

\* neither engine loop runs
EngineOff ==
  /\ order = << >>
  /\ clock = Boot
  /\ markets = << >>
  /\ eng_wake = 0
  /\ updates = 0
  /\ slips = 0
  /\ lastCond = << >>
  /\ condSince = << >>
  /\ prevAnomaly = << >>
  /\ runEnded = << >>
  /\ lastTick = None
  /\ horizon = Boot

\* the history after appending ticks at Boot, Boot + 1, ..., Boot + n - 1
\* under a window of at least n seconds (nothing is old enough to be trimmed,
\* and n < HIST_MAXLEN)
SteadyHist(n) == [i \in 1..n |-> <<Boot + i - 1, 0>>]

\* the windows the history update is run under
HistWindows == {BASELINE_WINDOW_SEC, LongWindow}

InitHist ==
  \E w \in HistWindows : \E n \in {0, HIST_MAXLEN - 1} :
    /\ n <= w
    /\ h_win = w
    /\ h_now = Boot + n - 1
    /\ h_hist = SteadyHist(n)
    /\ h_dropped = {}
    /\ h_left = MaxHistTicks
    /\ EngineOff
    /\ ConfirmOff
    /\ FeedOff
    /\ StoreEmpty
    /\ BatchOff
    /\ StatOff
    /\ CacheOff

\* a tick gap seconds after the last one appends a sample and trims
HistTick(gap) ==
  LET now_s == h_now + gap
      full  == Append(h_hist, <<now_s, 0>>)
      hist  == trim_hist(deque_append(h_hist, <<now_s, 0>>), h_win, now_s)
  IN  /\ h_left > 0
      /\ h_left' = h_left - 1
      /\ h_now' = now_s
      /\ h_hist' = hist
      /\ h_dropped' = {full[i] : i \in 1..Len(full)} \ {hist[i] : i \in 1..Len(hist)}
      /\ UNCHANGED <<h_win, engineVars, confirmVars, feedVars, storeVars, batchVars,
                     statVars, cacheVars>>

NextHist == \E gap \in 1..MaxGap : HistTick(gap)

SpecHist == InitHist /\ [][NextHist]_vars

----------------------------------------------------------------------------
(* The functions of stats.py on their own: _quantile on short sorted lists *)
(* and median_iqr on lists around MIN_SAMPLES values long, in several      *)
(* orders and with None and NaN among the values.                          *)

IsSorted(s) == \A i \in 1..(Len(s) - 1) : s[i] <= s[i + 1]

QuantileInputs ==
  {s \in UNION {[1..n -> 1..MaxStatVal] : n \in 1..MaxStatLen} : IsSorted(s)}

\* the i-th value of a list: rising, constant, or scattered around zero
StatValue(p, i) ==
  CASE p = 1 -> i
    [] p = 2 -> 7
    [] OTHER -> ((i * 7) % 11) - 5

\* n values in rising, falling or rotated order
StatList(n, p, o) ==
  [i \in 1..n |->
     StatValue(p, CASE o = 1 -> i
                    [] o = 2 -> n + 1 - i
                    [] OTHER -> ((i + 4) % n) + 1)]

\* a list with None and NaN put among its values
WithJunk(j, vals) ==
  CASE j = 0 -> vals
    [] j = 1 -> <<Null>> \o vals
    [] j = 2 -> <<vals[1], NaN>> \o Tail(vals)
    [] OTHER -> <<Null, NaN>> \o vals \o <<NaN>>

StatCounts == {1, MIN_SAMPLES - 1, MIN_SAMPLES, MIN_SAMPLES + 1}

MedianInputs ==
  {WithJunk(j, StatList(n, p, o)) : n \in StatCounts, p \in 1..3, o \in 1..3, j \in 0..3}

InitStats ==
  /\ st_vals \in QuantileInputs \cup MedianInputs
  /\ st_out = <<"none">>
  /\ CacheOff
  /\ EngineOff
  /\ ConfirmOff
  /\ FeedOff
  /\ HistOff
  /\ StoreEmpty
  /\ BatchOff

\* _quantile(st_vals, qn / QDen), as median_iqr calls it: on a sorted list
CallQuantile(qn) ==
  /\ st_vals \in QuantileInputs
  /\ st_out' = <<"quantile", qn, Quantile(st_vals, qn)>>
  /\ UNCHANGED <<engineVars, confirmVars, feedVars, histVars, storeVars, batchVars,
                 cacheVars, st_vals>>

\* median_iqr(st_vals)
CallMedianIqr ==
  /\ st_out' = <<"median_iqr", median_iqr(st_vals)>>
  /\ UNCHANGED <<engineVars, confirmVars, feedVars, histVars, storeVars, batchVars,
                 cacheVars, st_vals>>

NextStats ==
  \/ \E qn \in 0..QDen : CallQuantile(qn)
  \/ CallMedianIqr

SpecStats == InitStats /\ [][NextStats]_vars

----------------------------------------------------------------------------
(* app/feeds/lighter_markets.py: fetch_lighter_markets and its cache.  A    *)
(* call has one suspension point, the await of client.get, so calls may    *)
(* overlap; each keeps the `now` it read on entry.                          *)

CACHE_TTL_SEC == 60

\* seconds of clock the behaviours span
MaxCacheTime == 62

\* calls of fetch_lighter_markets in a behaviour
MaxCalls == 3

\* seconds within which the client's timeouts end a request
MaxFetchSec == 2

\* what the upstream request comes to: a JSON list, other JSON, or an
\* exception (status, timeout, decoding)
Upstream == {<<"list", <<"BTC">>>>, <<"list", <<"BTC", "ETH">>>>, <<"list", << >>>>,
             <<"nonlist">>, <<"error">>}

\* _CACHE["data"] is not None and (now - _CACHE["ts"]) < CACHE_TTL_SEC
CacheFresh(c, now) == c.data # None /\ now - c.ts < CACHE_TTL_SEC

InitCache ==
  /\ CacheOff
  /\ HistOff
  /\ StoreEmpty
  /\ BatchOff
  /\ StatOff
  /\ FeedOff
  /\ order = << >>
  /\ clock = Boot
  /\ markets = << >>
  /\ eng_wake = 0
  /\ updates = 0
  /\ slips = 0
  /\ lastCond = << >>
  /\ condSince = << >>
  /\ prevAnomaly = << >>
  /\ runEnded = << >>
  /\ lastTick = None
  /\ horizon = Boot + MaxCacheTime
  /\ ConfirmOff

\* fetch_lighter_markets from its entry to the return of the cached list or
\* to the await of client.get
FetchCall ==
  /\ mk_calls < MaxCalls
  /\ mk_calls' = mk_calls + 1
  /\ IF CacheFresh(CACHE, clock)
     THEN /\ mk_ret' = <<"cached", clock, CACHE.data[1]>>
          /\ mk_flight' = mk_flight
     ELSE /\ mk_ret' = <<"request", clock>>
          /\ mk_flight' = Append(mk_flight, clock)
  /\ UNCHANGED <<CACHE, mk_fetched, engineVars, confirmVars, feedVars, histVars,
                 storeVars, batchVars, statVars>>

\* the sequence s without its element i
Without(s, i) == SubSeq(s, 1, i - 1) \o SubSeq(s, i + 1, Len(s))

\* the call i of those in flight resumes with the outcome out of its request
FetchReturn(i, out) ==
  /\ i \in 1..Len(mk_flight)
  /\ mk_flight' = Without(mk_flight, i)
  /\ IF out[1] = "list"
     THEN /\ CACHE' = [ts |-> mk_flight[i], data |-> Some(out[2])]
          /\ mk_ret' = <<"fetched", mk_flight[i], out[2]>>
          /\ mk_fetched' = Some([begun |-> IF mk_fetched = None THEN mk_flight[i]
                                            ELSE Max(mk_fetched[1].begun, mk_flight[i]),
                                  done  |-> clock])
     ELSE /\ CACHE' = CACHE
          /\ mk_ret' = <<"empty", mk_flight[i], out[1]>>
          /\ mk_fetched' = mk_fetched
  /\ UNCHANGED <<mk_calls, engineVars, confirmVars, feedVars, histVars, storeVars,
                 batchVars, statVars>>

\* a second passes; a request MaxFetchSec old has ended before it does
CacheClock ==
  /\ clock < horizon
  /\ \A i \in 1..Len(mk_flight) : clock - mk_flight[i] < MaxFetchSec
  /\ clock' = clock + 1
  /\ mk_ret' = <<"none">>
  /\ UNCHANGED <<markets, eng_wake, updates, slips, lastCond, condSince, prevAnomaly,
                 runEnded, lastTick, horizon, order, confirmVars, feedVars, histVars,
                 storeVars, batchVars, statVars, CACHE, mk_flight, mk_fetched, mk_calls>>

NextCache ==
  \/ FetchCall
  \/ \E i \in 1..MaxCalls, out \in Upstream : FetchReturn(i, out)
  \/ CacheClock

SpecCache == InitCache /\ [][NextCache]_vars

----------------------------------------------------------------------------
(* Claims about the engine (checked under SpecEngine) *)

Hist(b) == markets[b].spread_bps_hist

\* C1 (as claimed): anomaly becomes true only when cond has been observed true
\* on every engine tick for at least PERSIST_SEC up to that tick; a tick that
\* saw it false or did not evaluate it restarts the persistence timer.
C1_PersistenceContinuous ==
  \A b \in Bases :
    (markets[b].anomaly /\ ~prevAnomaly[b]) =>
      /\ condSince[b] # None
      /\ lastTick[1] - condSince[b][1] >= PERSIST_SEC

\* C2: after every engine tick that evaluated cond to false for a base, its
\* anomaly is false and its anomaly_started_s is unset.
C2_ClearsAtOnce ==
  \A b \in Bases :
    lastCond[b] = "F" =>
      (~markets[b].anomaly /\ markets[b].anomaly_started_s = None)

\* a tick found cond false for a base whose anomaly was active
C2_Witness ==
  \E b \in Bases : lastCond[b] = "F" /\ prevAnomaly[b]

\* C3: in a run of ticks that all saw cond true and that began with the timer
\* unset, anomaly is true exactly from the tick at which PERSIST_SEC have passed
\* since the run began; and it is false after a tick that saw cond false.
C3_ActivatesAtPersist ==
  \A b \in Bases :
    /\ (condSince[b] # None /\ markets[b].anomaly_started_s = condSince[b]) =>
         (markets[b].anomaly <=> lastTick[1] - condSince[b][1] >= PERSIST_SEC)
    /\ lastCond[b] = "F" => ~markets[b].anomaly

\* the tick exactly PERSIST_SEC after the run began has set anomaly
C3_Witness ==
  \E b \in Bases :
    /\ condSince[b] # None
    /\ markets[b].anomaly_started_s = condSince[b]
    /\ lastTick[1] - condSince[b][1] = PERSIST_SEC
    /\ markets[b].anomaly
    /\ ~prevAnomaly[b]

\* C4: when a tick sees cond false after a run (begun with the timer unset) in
\* which cond was seen true for at most PERSIST_SEC - 1 seconds, anomaly was
\* false on the last tick of the run (hence on all of them: no tick of a run
\* clears it), is false now, and anomaly_started_s is unset.
C4_ShortRunNeverActive ==
  \A b \in Bases :
    (runEnded[b] # None /\ runEnded[b][1] <= PERSIST_SEC - 1) =>
      /\ ~prevAnomaly[b]
      /\ ~markets[b].anomaly
      /\ markets[b].anomaly_started_s = None

\* a run of exactly PERSIST_SEC - 1 seconds has just ended
C4_Witness ==
  \E b \in Bases : runEnded[b] = Some(PERSIST_SEC - 1)

\* C10 (as claimed): after every engine tick every retained sample is at most
\* BASELINE_WINDOW_SEC old relative to the tick's time, also when the tick
\* appended no sample.
C10_TrimmedEveryTick ==
  lastTick # None =>
    \A b \in Bases : \A i \in 1..Len(Hist(b)) :
      lastTick[1] - Hist(b)[i][1] <= BASELINE_WINDOW_SEC

\* the last engine tick appended a sample for b
Appended(b) ==
  /\ lastTick # None
  /\ Hist(b) # << >>
  /\ Hist(b)[Len(Hist(b))][1] = lastTick[1]

\* C10 (amended): after every engine tick that appended a sample for a base,
\* every retained sample of the base is at most BASELINE_WINDOW_SEC old
\* relative to the tick's time.
C10_TrimmedOnAppend ==
  \A b \in Bases :
    Appended(b) =>
      \A i \in 1..Len(Hist(b)) :
        lastTick[1] - Hist(b)[i][1] <= BASELINE_WINDOW_SEC

\* a tick more than a window after the first sample appended, and the oldest
\* retained sample is exactly one window old
C10_Witness ==
  \E b \in Bases :
    /\ Appended(b)
    /\ lastTick[1] - Boot > BASELINE_WINDOW_SEC
    /\ lastTick[1] - Hist(b)[1][1] = BASELINE_WINDOW_SEC

\* C12: in every reachable state the baseline median and iqr of a base are
\* both defined or both undefined, and they are defined exactly when its
\* history holds at least MIN_SAMPLES (20) samples.
C12_BaselineIffMinSamples ==
  \A b \in Bases :
    /\ markets[b].baseline_median_bps = None <=> markets[b].baseline_iqr_bps = None
    /\ markets[b].baseline_median_bps # None <=> Len(Hist(b)) >= MIN_SAMPLES

\* the tick that appended the 20th sample has defined the baseline
C12_Witness ==
  \E b \in Bases :
    /\ Appended(b)
    /\ Len(Hist(b)) = MIN_SAMPLES
    /\ markets[b].baseline_median_bps # None
    /\ markets[b].baseline_iqr_bps # None

\* a tick whose trim left fewer than 20 samples has undefined a baseline that
\* was defined
C12_WitnessUndefined ==
  \E b \in Bases :
    /\ Appended(b)
    /\ lastTick[1] - Boot > BASELINE_WINDOW_SEC
    /\ Len(Hist(b)) < MIN_SAMPLES
    /\ markets[b].baseline_median_bps = None

\* C13 (as claimed): after any tick on which a base's history has fewer than
\* MIN_SAMPLES samples (its baseline is undefined), its anomaly is not true.
C13_SuppressedWithoutBaseline ==
  \A b \in Bases :
    (lastTick # None /\ Len(Hist(b)) < MIN_SAMPLES) => ~markets[b].anomaly

\* C11 (as claimed): a sample is evicted from the baseline history only
\* because it is older than the configured baseline window at the tick that
\* evicts it, and oldest first (every evicted sample is older than every
\* retained one), whatever the window and the cadence.
C11_EvictedByAgeOnly ==
  \A d \in h_dropped :
    /\ h_now - d[1] > h_win
    /\ \A i \in 1..Len(h_hist) : d[1] < h_hist[i][1]

\* the step is an engine tick
EngineTicked == lastTick' # lastTick

\* both operands of the live spread of m are defined and best_ask > 0
SpreadDefined(m) ==
  m.best_ask # None /\ m.buy_1500 # None /\ m.best_ask[1] > 0

\* C26 (as claimed): after an engine tick, spread_usd is buy_1500 - best_ask
\* and spread_bps is spread_usd / best_ask * 10000 when both operands are
\* defined and best_ask > 0; otherwise both are undefined and the history
\* is as before the tick.
C26_LiveSpread ==
  [][EngineTicked =>
       \A b \in Bases :
         LET m == markets[b]
             n == markets'[b]
         IN  IF SpreadDefined(m)
             THEN /\ n.spread_usd = Some(m.buy_1500[1] - m.best_ask[1])
                  /\ n.spread_bps =
                       Some(((m.buy_1500[1] - m.best_ask[1]) * 10000) \div m.best_ask[1])
             ELSE /\ n.spread_usd = None
                  /\ n.spread_bps = None
                  /\ n.spread_bps_hist = m.spread_bps_hist
    ]_vars

\* what holds of a tick: the spread is computed when the operands are
\* defined and best_ask > 0, no sample is appended otherwise, and a tick
\* that finds an operand undefined or best_ask = 0 leaves the market as it is
C26_LiveSpreadWhenDefined ==
  [][EngineTicked =>
       \A b \in Bases :
         LET m == markets[b]
             n == markets'[b]
         IN  IF SpreadDefined(m)
             THEN /\ n.spread_usd = Some(m.buy_1500[1] - m.best_ask[1])
                  /\ n.spread_bps =
                       Some(((m.buy_1500[1] - m.best_ask[1]) * 10000) \div m.best_ask[1])
             ELSE /\ n.spread_bps_hist = m.spread_bps_hist
                  /\ (m.best_ask = None \/ m.buy_1500 = None \/ m.best_ask[1] = 0)
                       => n = m
    ]_vars

\* the anomaly threshold for an iqr, in quarter-bps
Threshold(iqr) == IF 2 * iqr > QDen * MIN_DELTA_BPS THEN 2 * iqr ELSE QDen * MIN_DELTA_BPS

\* C27: a tick that computes the spread of a market and finds its baseline
\* defined sets the deviation to spread_bps - median and takes the anomaly
\* branch (the timer is running afterwards) exactly when |deviation| >=
\* max(MIN_DELTA_BPS, 2 * iqr); the threshold is at least MIN_DELTA_BPS, and
\* with iqr = 0 a deviation below MIN_DELTA_BPS leaves the timer unset and
\* the anomaly false.
C27_ThresholdFloor ==
  [][EngineTicked =>
       \A b \in Bases :
         LET m == markets[b]
             n == markets'[b]
         IN  (SpreadDefined(m) /\ n.baseline_median_bps # None) =>
               LET dev == QDen * n.spread_bps[1] - n.baseline_median_bps[1]
                   thr == Threshold(n.baseline_iqr_bps[1])
               IN  /\ n.deviation_bps = Some(dev)
                   /\ thr >= QDen * MIN_DELTA_BPS
                   /\ Abs(dev) >= thr <=> n.anomaly_started_s # None
                   /\ Abs(dev) < thr => ~n.anomaly
                   /\ (n.baseline_iqr_bps[1] = 0 /\ Abs(dev) < QDen * MIN_DELTA_BPS)
                        => (n.anomaly_started_s = None /\ ~n.anomaly)
    ]_vars

\* a tick has found iqr = 0 and a deviation of 7 bps, below MIN_DELTA_BPS:
\* the condition is false
C27_Witness ==
  \E b \in Bases :
    /\ lastCond[b] = "F"
    /\ markets[b].baseline_iqr_bps = Some(0)
    /\ markets[b].deviation_bps = Some(QDen * 7)
    /\ markets[b].anomaly_started_s = None

\* a tick has found 2 * iqr above MIN_DELTA_BPS and a deviation of at least
\* MIN_DELTA_BPS below it: the condition is false
C27_WitnessWide ==
  \E b \in Bases :
    /\ lastCond[b] = "F"
    /\ markets[b].baseline_iqr_bps # None
    /\ 2 * markets[b].baseline_iqr_bps[1] > QDen * MIN_DELTA_BPS
    /\ Abs(markets[b].deviation_bps[1]) >= QDen * MIN_DELTA_BPS
    /\ markets[b].anomaly_started_s = None

----------------------------------------------------------------------------
(* Claims about the confirm executor (checked under SpecConfirm) *)

Awaiting == pc_c \in {"await_var", "await_vwap"}

\* C5 (as claimed): a confirmation of a base is started only if none of the
\* base has completed successfully, or at least VAR_CONFIRM_COOLDOWN_SEC
\* seconds have passed since the last one completed.
C5_CooldownSinceCompletion ==
  Awaiting =>
    LET b == order[c_idx] IN
      \/ lastDone[b] = None
      \/ c_start - lastDone[b][1] >= VAR_CONFIRM_COOLDOWN_SEC

\* the step ends an attempt for b in failure
FailStep(b) == res[b] = "-" /\ res'[b] = "fail"

\* the step moves the for loop of the pass over b without attempting it
PassedOver(b) ==
  LET scanning == \/ pc_c = "sleep" /\ c_now' # c_now
                  \/ Awaiting /\ (pc_c' = "sleep" \/ c_idx' # c_idx)
      from     == IF pc_c = "sleep" THEN 1 ELSE c_idx + 1
      to       == IF pc_c' = "sleep" THEN Len(order) ELSE c_idx' - 1
  IN  scanning /\ Pos(b) >= from /\ Pos(b) <= to

\* C6: a failed attempt for a base (a callback raised or returned None) leaves
\* its last_confirm_s and confirm as they were; the pass goes on to the next
\* market that passes the guards (or ends in the loop's sleep); and in the
\* pass after one in which its attempt failed, the base is passed over only
\* if it is no longer anomalous.
C6_FailureLeavesNoTrace ==
  [][\A b \in Bases :
       /\ FailStep(b) =>
            /\ markets'[b].last_confirm_s = markets[b].last_confirm_s
            /\ markets'[b].confirm = markets[b].confirm
            /\ LET j == NextEligible(markets', Pos(b) + 1, c_now) IN
                 IF j <= Len(order)
                 THEN pc_c' = "await_var" /\ c_idx' = j
                 ELSE pc_c' = "sleep" /\ c_wake' = clock + 1
       /\ (PassedOver(b) /\ prevRes'[b] = "fail") => ~markets[b].anomaly
    ]_vars

\* BTC failed in the pass before and again in this pass, which has gone on to ETH
C6_Witness ==
  /\ prevRes["BTC"] = "fail"
  /\ res["BTC"] = "fail"
  /\ pc_c = "await_var"
  /\ order[c_idx] = "ETH"
  /\ markets["BTC"].last_confirm_s = None

\* the quote request of the attempt under way has been issued and has not
\* returned; likewise the VWAP request
VarInFlight == pc_c = "await_var"

VwapInFlight == pc_c = "await_vwap"

\* C25 (as claimed): the VWAP request of an attempt is issued while its
\* quote request is still in flight: after the step that issues the one,
\* the other has not returned.
C25_RequestsConcurrent ==
  [][(~VwapInFlight /\ VwapInFlight') => VarInFlight']_vars

\* the step completes a successful confirmation of b
Confirmed(b) == res[b] # "ok" /\ res'[b] = "ok"

\* C29: in every state last_confirm_s of a market is set exactly when its
\* confirm is; and the step that completes a successful confirmation sets
\* last_confirm_s and makes confirm a snapshot built from this attempt alone:
\* the confirm notional, the two prices, their difference, and the
\* difference over the VWAP in bps.
C29_ConfirmWholesale ==
  /\ [](\A b \in Bases :
          markets[b].last_confirm_s # None <=> markets[b].confirm # None)
  /\ [][\A b \in Bases :
          Confirmed(b) =>
            LET c == markets'[b].confirm IN
              /\ markets'[b].last_confirm_s = Some(c_now)
              /\ c # None
              /\ DOMAIN c[1] = {"notional", "var_buy", "lighter_vwap_ask",
                                "spread_usd_exec", "spread_bps_exec", "ts_ms"}
              /\ c[1].notional = CONFIRM_NOTIONAL_USD
              /\ c[1].var_buy = c_var
              /\ c[1].lighter_vwap_ask # None
              /\ c[1].spread_usd_exec = Some(c_var[1] - c[1].lighter_vwap_ask[1])
              /\ c[1].spread_bps_exec =
                   Some((c[1].spread_usd_exec[1] * 10000) \div c[1].lighter_vwap_ask[1])
              /\ c[1].ts_ms = clock * 1000
      ]_vars

\* a market has been confirmed in a pass that began a cooldown or more
\* after the first pass: its snapshot and its stamp are those of this pass
C29_Witness ==
  \E b \in Bases :
    /\ res[b] = "ok"
    /\ markets[b].confirm # None
    /\ markets[b].last_confirm_s = Some(c_now)
    /\ c_now >= Boot + MIN_SAMPLES + PERSIST_SEC + 1 + VAR_CONFIRM_COOLDOWN_SEC
    /\ markets[b].confirm[1].ts_ms >= c_now * 1000
    /\ markets[b].confirm[1].spread_bps_exec = Some(30)

----------------------------------------------------------------------------
(* Claims about the feed loop (checked under SpecFeed and SpecFeedFair) *)

\* 10^5 * 1.6^k = 8^k * 2^5 * 5^(5-k) for k <= 5, and 1.6^k > 15 from k = 6 on
RefDelay(k) ==
  IF k <= 5 THEN Min((8 ^ k) * 32 * (5 ^ (5 - k)), BackoffCap) ELSE BackoffCap

\* C7: the delay of the k-th consecutive retry sleep since the last successful
\* connect (k = 0, 1, ...) is min(1.0 * 1.6^k, 15.0) s, and the backoff is
\* never below 1.0 s nor above 15.0 s.
C7_BackoffSequence ==
  /\ pc_f = "sleeping" => backoff = RefDelay(streak - 1)
  /\ pc_f # "off" => (backoff >= InitialBackoff /\ backoff <= BackoffCap)

\* the eighth consecutive failure sleeps for the cap
C7_Witness ==
  pc_f = "sleeping" /\ streak = 8 /\ backoff = BackoffCap

\* C8: whatever failed before, the first retry sleep after a successful
\* connect lasts 1.0 s.
C8_ResetOnConnect ==
  (pc_f = "sleeping" /\ streak = 1) => backoff = InitialBackoff

\* three failures, a successful connect, and the sleep after the next failure
C8_Witness ==
  pc_f = "sleeping" /\ streak = 1 /\ fails = 4 /\ backoff = InitialBackoff

----------------------------------------------------------------------------
(* Claims about _handle_message and the feed store (checked under SpecFeed) *)

\* the step handled a raw message
Handled == msgs' # msgs

\* a JSON object with type "connected"
IsConnectedMsg(raw) ==
  raw[1] = "json" /\ IsDict(raw[2]) /\ Get(raw[2], "type") = JStr("connected")

StoreUnchanged ==
  /\ market_stats' = market_stats
  /\ markets_seen' = markets_seen
  /\ last_message_ts' = last_message_ts

\* C14: when a message of type "connected" is handled, afterwards session_id
\* is the message's session_id and last_error is None, and market_stats,
\* markets_seen and last_message_ts are as before.
C14_ConnectedSetsSession ==
  [][(Handled /\ IsConnectedMsg(f_last')) =>
       /\ session_id' = Get(f_last'[2], "session_id")
       /\ last_error' = None
       /\ StoreUnchanged
    ]_vars

\* after a failure and a market_stats payload, an acknowledgement has set the
\* session and cleared the error, and the store still holds the markets
C14_Witness ==
  /\ f_last = MsgConnected
  /\ pc_f = "recv"
  /\ fails >= 1
  /\ session_id = JStr("s1")
  /\ last_error = None
  /\ markets_seen # {}

\* not valid JSON, not an object, or (not an acknowledgement and) a channel
\* that does not contain "market_stats" or a market_stats that is no mapping
Malformed(raw) ==
  \/ raw[1] = "text"
  \/ ~IsDict(raw[2])
  \/ /\ Get(raw[2], "type") # JStr("connected")
     /\ \/ ContainsMarketStats(Or(Get(raw[2], "channel"), JStr(""))) # "yes"
        \/ ~IsDict(Get(raw[2], "market_stats"))

\* C15 (as claimed): a malformed or unrelated message is dropped: the loop
\* stays in its receive loop on the same connection, and session_id,
\* last_error, market_stats, markets_seen and last_message_ts are as before.
C15_MalformedDropped ==
  [][(Handled /\ Malformed(f_last')) =>
       /\ pc_f' = "recv"
       /\ session_id' = session_id
       /\ last_error' = last_error
       /\ StoreUnchanged
    ]_vars

\* C16: the stored market ids are those of the well-formed entries of the
\* market_stats payloads handled so far, the record stored for an id is the
\* normalization of the latest such entry for it, and no step removes an id.
C16_StoreLastWriterWins ==
  /\ [](/\ DOMAIN market_stats = DOMAIN f_latest
        /\ markets_seen = DOMAIN market_stats
        /\ \A id \in DOMAIN market_stats :
             market_stats[id] = Normalize(id, f_latest[id][2]))
  /\ [][/\ (DOMAIN market_stats) \subseteq (DOMAIN market_stats')
        /\ markets_seen \subseteq markets_seen'
       ]_vars

\* after StatsA and then StatsB: id 2 is kept from StatsA, and id 1 holds the
\* last of the two entries of StatsB for it
C16_Witness ==
  /\ f_last = MsgStatsB
  /\ DOMAIN market_stats = {1, 2}
  /\ market_stats[2].symbol = JStr("BTC")
  /\ market_stats[1].symbol = JStr("SOL")
  /\ market_stats[1].mark_price = None

\* C17: when a market_stats payload is handled, every well-formed entry of it
\* is in the store afterwards (as the normalization of the last well-formed
\* entry for its id), whatever entries with a non-mapping value or an
\* unconvertible id the payload holds besides.
C17_EntryIsolation ==
  [][Handled =>
       LET es == StatsEntries(f_last') IN
         \A i \in 1..Len(es) :
           WellFormed(es[i]) =>
             LET id == EntryId(es[i][1], es[i][2])[1] IN
               /\ id \in DOMAIN market_stats'
               /\ id \in markets_seen'
               /\ market_stats'[id] = Normalize(id, es[LastIdx(es, id)][2])
    ]_vars

\* StatsA is handled: the entry after the three bad ones is stored
C17_Witness ==
  /\ f_last = MsgStatsA
  /\ DOMAIN market_stats = {1, 2}
  /\ market_stats[1].best_ask = Some(100)
  /\ market_stats[2].best_ask = Some(52)

\* the first present non-null value of the entry v among keys, converted
\* (None when there is none)
ExplicitOf(v, keys) ==
  LET present == {i \in 1..Len(keys) : Get(v, keys[i]) # None} IN
    IF present = {} THEN None
    ELSE to_float(Get(v, keys[CHOOSE i \in present : \A j \in present : i <= j]))

\* the mark price of the entry v, else its index price
MarkOrIndex(v) ==
  LET mark  == to_float(Or(Get(v, "mark_price"), Get(v, "markPrice")))
      index == to_float(Or(Get(v, "index_price"), Get(v, "indexPrice")))
  IN  IF mark # None THEN mark ELSE index

\* C28 (as claimed): the stored bid and ask of a market are the first
\* present non-null values of the latest entry for it among the candidate
\* keys of each; when neither is there, and only then, both are the mark
\* price of the entry, else its index price.
C28_BidAskResolution ==
  \A id \in DOMAIN market_stats :
    LET v   == f_latest[id][2]
        bid == ExplicitOf(v, bid_keys)
        ask == ExplicitOf(v, ask_keys)
    IN  IF bid = None /\ ask = None
        THEN /\ market_stats[id].best_bid = MarkOrIndex(v)
             /\ market_stats[id].best_ask = MarkOrIndex(v)
        ELSE /\ market_stats[id].best_bid = bid
             /\ market_stats[id].best_ask = ask

----------------------------------------------------------------------------
(* Claims about /ingest/var_batch (checked under SpecBatch) *)

\* the step handled a request with records in it: b_last' is its body
Ingested == b_count' # b_count

\* the base of a record, and its notional key (<<"ok", n>> or <<"raise">>)
QBase(q) == BaseOf(Get(q, "base"))

QKey(q) == notional_key(Or(Or(Get(q, "notional_usd"), Get(q, "notional")), JNum(0)))

\* a record with a base, a bid and an ask
Usable(q) ==
  /\ IsDict(q)
  /\ QBase(q) # ""
  /\ to_f(Get(q, "bid")) # None
  /\ to_f(Get(q, "ask")) # None

\* the mid-price of a usable record is more than 5% off the reference ref
Deviates(q, ref) == OffMark(to_f(Get(q, "bid"))[1], to_f(Get(q, "ask"))[1], ref)

\* a record that passes every check of the handler, given market_stats ms
Accepted(q, ms) ==
  /\ Usable(q)
  /\ QKey(q)[1] = "ok"
  /\ ~Deviates(q, RefPrice(get_lighter_price(ms, QBase(q))))

\* the key an accepted record is stored under
StoreKey(q) == <<QBase(q), QKey(q)[2]>>

\* the last accepted record of qs with the key of qs[i]
LastAccepted(qs, ms, i) ==
  CHOOSE j \in 1..Len(qs) :
    /\ Accepted(qs[j], ms) /\ StoreKey(qs[j]) = StoreKey(qs[i])
    /\ \A k \in (j + 1)..Len(qs) :
         ~(Accepted(qs[k], ms) /\ StoreKey(qs[k]) = StoreKey(qs[i]))

\* the smaller and the larger of two floats
FMin(a, b) == IF a <= b THEN a ELSE b

FMax(a, b) == IF a <= b THEN b ELSE a

\* C18 (as claimed): every stored entry is keyed by its own (base,
\* notional_int) and has bid <= ask; and after a request, every accepted
\* record of it has an entry under (uppercase(trim(base)), notional_usd
\* rounded to the nearest integer) that holds the smaller and the larger of
\* bid and ask of the last accepted record of the request with that key.
C18_StoredUnderKey ==
  /\ [](\A i \in 1..Len(VAR_BATCH) :
          /\ VAR_BATCH[i][1] = <<VAR_BATCH[i][2].base, VAR_BATCH[i][2].notional_int>>
          /\ FLe(VAR_BATCH[i][2].bid, VAR_BATCH[i][2].ask))
  /\ [][Ingested =>
         LET qs == QuotesOf(b_last') IN
           \A i \in 1..Len(qs) :
             Accepted(qs[i], market_stats) =>
               LET q == qs[LastAccepted(qs, market_stats, i)]
                   k == KeyIdx(VAR_BATCH', StoreKey(qs[i]))
               IN  /\ k # 0
                   /\ VAR_BATCH'[k][2].bid =
                        FMin(to_f(Get(q, "bid"))[1], to_f(Get(q, "ask"))[1])
                   /\ VAR_BATCH'[k][2].ask =
                        FMax(to_f(Get(q, "bid"))[1], to_f(Get(q, "ask"))[1])
      ]_vars

\* a quote record free of NaN
Finite(q) ==
  IsDict(q) =>
    /\ QKey(q)[1] = "ok"
    /\ to_f(Get(q, "bid")) # Some(NaN)
    /\ to_f(Get(q, "ask")) # Some(NaN)

AllFinite(qs) == \A i \in 1..Len(qs) : Finite(qs[i])

\* C18 for requests whose numbers are all finite
C18_FiniteStoredUnderKey ==
  [][(Ingested /\ AllFinite(QuotesOf(b_last'))) =>
       LET qs == QuotesOf(b_last') IN
         \A i \in 1..Len(qs) :
              Accepted(qs[i], market_stats) =>
                LET q == qs[LastAccepted(qs, market_stats, i)]
                    k == KeyIdx(VAR_BATCH', StoreKey(qs[i]))
                IN  /\ k # 0
                    /\ FLe(VAR_BATCH'[k][2].bid, VAR_BATCH'[k][2].ask)
                    /\ VAR_BATCH'[k][2].bid =
                         FMin(to_f(Get(q, "bid"))[1], to_f(Get(q, "ask"))[1])
                    /\ VAR_BATCH'[k][2].ask =
                         FMax(to_f(Get(q, "bid"))[1], to_f(Get(q, "ask"))[1])
    ]_vars

\* a usable record whose mid-price is more than 5% off the known mark
OffKnownMark(q, ms) ==
  /\ Usable(q)
  /\ Truthy(get_lighter_price(ms, QBase(q)).mark)
  /\ Deviates(q, get_lighter_price(ms, QBase(q)).mark)

\* the request body with such records left out
WithoutOffMark(payload, ms) ==
  JObj(<< <<"quotes",
            JList(SelectSeq(QuotesOf(payload), LAMBDA q : ~OffKnownMark(q, ms)))>> >>)

\* C19 (as claimed): the records of a request that are more than 5% off the
\* known mark leave no trace but their base in the active-bases set: the
\* quote store, the chart series and the response are those of the request
\* without them, and the base of each is in ACTIVE_BASES afterwards.
C19_OffMarkDropped ==
  [][Ingested =>
       LET r == Ingest(VAR_BATCH, ACTIVE_BASES, SPREAD_SERIES, market_stats,
                       WithoutOffMark(b_last', market_stats), clock * 1000)
           qs == QuotesOf(b_last')
       IN  /\ VAR_BATCH' = r.vb
           /\ SPREAD_SERIES' = r.ss
           /\ b_resp' = Response(r)
           /\ \A i \in 1..Len(qs) :
                OffKnownMark(qs[i], market_stats) => QBase(qs[i]) \in ACTIVE_BASES'
    ]_vars

\* C19 for requests whose numbers are all finite
C19_FiniteOffMarkDropped ==
  [][(Ingested /\ AllFinite(QuotesOf(b_last'))) =>
       LET r == Ingest(VAR_BATCH, ACTIVE_BASES, SPREAD_SERIES, market_stats,
                       WithoutOffMark(b_last', market_stats), clock * 1000)
           qs == QuotesOf(b_last')
       IN  /\ VAR_BATCH' = r.vb
           /\ SPREAD_SERIES' = r.ss
           /\ b_resp' = Response(r)
           /\ \A i \in 1..Len(qs) :
                OffKnownMark(qs[i], market_stats) => QBase(qs[i]) \in ACTIVE_BASES'
    ]_vars

\* a stored ETH quote has survived a request holding only a record off the
\* mark: nothing was counted and nothing was pushed
C19_FiniteWitness ==
  /\ b_last = JObj(<< <<"quotes", JList(<<QEthOff>>)>> >>)
  /\ b_resp = <<"ok", 0>>
  /\ KeyIdx(VAR_BATCH, <<"ETH", 1500>>) # 0
  /\ VAR_BATCH[KeyIdx(VAR_BATCH, <<"ETH", 1500>>)][2].ask = 1000
  /\ "ETH" \in ACTIVE_BASES

\* a record with an empty base, or without a bid or an ask
Incomplete(q) ==
  /\ IsDict(q)
  /\ \/ QBase(q) = ""
     \/ to_f(Get(q, "bid")) = None
     \/ to_f(Get(q, "ask")) = None

\* the request body with such records left out
WithoutIncomplete(payload) ==
  JObj(<< <<"quotes",
            JList(SelectSeq(QuotesOf(payload), LAMBDA q : ~Incomplete(q)))>> >>)

\* C20 (as claimed): the records of a request that lack a bid or an ask, or
\* have an empty base, leave no trace and raise no error: the quote store,
\* the active bases, the chart series and the response are those of the
\* request without them, so the other records are processed as if alone.
C20_IncompleteDropped ==
  [][Ingested =>
       LET r == Ingest(VAR_BATCH, ACTIVE_BASES, SPREAD_SERIES, market_stats,
                       WithoutIncomplete(b_last'), clock * 1000)
       IN  /\ VAR_BATCH' = r.vb
           /\ ACTIVE_BASES' = r.ab
           /\ SPREAD_SERIES' = r.ss
           /\ b_resp' = Response(r)
    ]_vars

\* C20 for requests whose numbers are all finite
C20_FiniteIncompleteDropped ==
  [][(Ingested /\ AllFinite(QuotesOf(b_last'))) =>
       LET r == Ingest(VAR_BATCH, ACTIVE_BASES, SPREAD_SERIES, market_stats,
                       WithoutIncomplete(b_last'), clock * 1000)
       IN  /\ VAR_BATCH' = r.vb
           /\ ACTIVE_BASES' = r.ab
           /\ SPREAD_SERIES' = r.ss
           /\ b_resp' = Response(r)
    ]_vars

\* a request of a record without a bid and then a good one: one is stored
C20_FiniteWitness ==
  /\ b_last = JObj(<< <<"quotes", JList(<<QBtcNoBid, QEth>>)>> >>)
  /\ b_resp = <<"ok", 1>>
  /\ KeyIdx(VAR_BATCH, <<"ETH", 1500>>) # 0
  /\ ACTIVE_BASES = {"ETH"}

----------------------------------------------------------------------------
(* Claims about the chart series (checked under SpecRing and SpecSeries) *)

\* the deque of SPREAD_SERIES ss under key (empty when there is none)
SeriesOf(ss, key) == IF KeyIdx(ss, key) = 0 THEN << >> ELSE ss[KeyIdx(ss, key)][2]

\* new is old after j pushes at now_ms into a buffer of capacity MAX_POINTS:
\* the oldest samples, and only as many as do not fit, are gone
PushedInto(old, new, j, now_ms) ==
  LET kept == Len(new) - j IN
    /\ Len(new) = IF Len(old) + j <= MAX_POINTS THEN Len(old) + j ELSE MAX_POINTS
    /\ kept >= 0
    /\ kept <= Len(old)
    /\ SubSeq(new, 1, kept) = SubSeq(old, Len(old) - kept + 1, Len(old))
    /\ \A i \in (kept + 1)..Len(new) : new[i][1] = now_ms

\* C21: no series ever holds more than MAX_POINTS samples, and a request
\* changes a series only by pushing: its samples afterwards are the newest
\* of the old ones followed by the pushed ones, in insertion order, with the
\* oldest evicted one for one when the buffer is full; no series is removed.
C21_RingBuffer ==
  /\ [](\A k \in 1..Len(SPREAD_SERIES) : Len(SPREAD_SERIES[k][2]) <= MAX_POINTS)
  /\ [][Ingested =>
         /\ \A k \in 1..Len(SPREAD_SERIES) :
              KeyIdx(SPREAD_SERIES', SPREAD_SERIES[k][1]) # 0
         /\ \A k \in 1..Len(SPREAD_SERIES') :
              \E j \in 0..Len(QuotesOf(b_last')) :
                PushedInto(SeriesOf(SPREAD_SERIES, SPREAD_SERIES'[k][1]),
                           SPREAD_SERIES'[k][2], j, clock * 1000)
      ]_vars

\* MAX_POINTS + 1 samples have been pushed into a series: it is full, the
\* first sample is gone, the second is now the oldest and the newest is last
C21_Witness ==
  /\ b_count = 2
  /\ \E k \in 1..Len(SPREAD_SERIES) :
       LET dq == SPREAD_SERIES[k][2] IN
         /\ Len(dq) = MAX_POINTS
         /\ dq[1][1] = Boot * 1000 - WarmStepMs * (MAX_POINTS - 2)
         /\ dq[MAX_POINTS][1] = clock * 1000
         /\ dq[MAX_POINTS - 1][1] >= Boot * 1000

\* C22: a query whose window parses is answered with the samples of the
\* series of (base, mode) that are at or after cutoff = now - window, each as
\* {t, v} with v the metric asked for, in the order of the series; the
\* samples before the cutoff are left out, and latest is the last point
\* returned (None when none is).
C22_QueryWindow ==
  [][(q_req' # None /\ parse_window_s(q_req'[2]) # None) =>
       LET dq     == SeriesOf(SPREAD_SERIES, <<UpperStrip(q_req'[1]), ModeOf(q_req'[4])>>)
           cutoff == clock * 1000 - parse_window_s(q_req'[2])[1] * 1000
           at     == {i \in 1..Len(dq) : dq[i][1] >= cutoff}
           nth(k) == CHOOSE i \in at : Cardinality({j \in at : j < i}) = k - 1
           pts    == q_resp'[2]
       IN  /\ q_resp'[1] = "ok"
           /\ Len(pts) = Cardinality(at)
           /\ \A k \in 1..Len(pts) :
                pts[k] = <<dq[nth(k)][1],
                           IF q_req'[3] = "bps" THEN dq[nth(k)][3] ELSE dq[nth(k)][2]>>
           /\ q_resp'[3] = IF pts = << >> THEN None ELSE Some(pts[Len(pts)])
    ]_vars

\* a series holds a sample from before the cutoff and one at it: the query
\* has returned the second alone
C22_Witness ==
  /\ q_req = <<"eth", "0", "bps", "">>
  /\ Len(SeriesOf(SPREAD_SERIES, <<"ETH", PushModes[1]>>)) = 2
  /\ SeriesOf(SPREAD_SERIES, <<"ETH", PushModes[1]>>)[1][1] < clock * 1000
  /\ SeriesOf(SPREAD_SERIES, <<"ETH", PushModes[1]>>)[2][1] = clock * 1000
  /\ q_resp[1] = "ok"
  /\ Len(q_resp[2]) = 1
  /\ q_resp[2][1][1] = clock * 1000
  /\ q_resp[3] = Some(q_resp[2][1])

----------------------------------------------------------------------------
(* Claims about stats.py (checked under SpecStats) *)

\* C23: quantile(sorted, q) of n >= 1 values is, with position (n - 1) * q,
\* the element at the position when it is an index, and otherwise the
\* element below it weighted by 1 - frac plus the element above it weighted
\* by frac; [1,2,3,4] gives 2.5 at 0.5 and 1.75 at 0.25, [5] gives 5.
\* (Results are in quarters: 10, 7 and 20.)
C23_QuantileInterpolates ==
  st_out[1] = "quantile" =>
    LET n    == Len(st_vals)
        qn   == st_out[2]
        out  == st_out[3]
        pos4 == (n - 1) * qn
        fl   == pos4 \div QDen
        fr   == pos4 - QDen * fl
    IN  /\ fr = 0 => out = QDen * st_vals[fl + 1]
        /\ fr # 0 => out = (QDen - fr) * st_vals[fl + 1] + fr * st_vals[fl + 2]
        /\ QDen * st_vals[1] <= out /\ out <= QDen * st_vals[n]
        /\ (st_vals = <<1, 2, 3, 4>> /\ qn = 2) => out = 10
        /\ (st_vals = <<1, 2, 3, 4>> /\ qn = 1) => out = 7
        /\ st_vals = <<5>> => out = 20

\* the quantile 0.25 of [1,2,3,4] has been computed: 1.75
C23_Witness ==
  /\ st_vals = <<1, 2, 3, 4>>
  /\ st_out = <<"quantile", 1, 7>>

\* the non-null, non-NaN values of a list, as positions
ValidAt(vals) == {i \in 1..Len(vals) : vals[i] # Null /\ vals[i] # NaN}

\* the k-th smallest of the valid values of vals
KthSmallest(vals, k) ==
  LET at == ValidAt(vals) IN
    vals[CHOOSE i \in at :
           /\ Cardinality({j \in at : vals[j] < vals[i]}) < k
           /\ k <= Cardinality({j \in at : vals[j] <= vals[i]})]

\* C24: median_iqr gives (None, None) when fewer than MIN_SAMPLES values
\* are neither None nor NaN, whatever the values; otherwise it gives the
\* quantile 0.5 and the difference of the quantiles 0.75 and 0.25 of those
\* values in ascending order (whatever their order in the list), and the
\* difference is not negative.
C24_MedianIqr ==
  st_out[1] = "median_iqr" =>
    LET n   == Cardinality(ValidAt(st_vals))
        asc == [k \in 1..n |-> KthSmallest(st_vals, k)]
    IN  /\ n < MIN_SAMPLES => st_out[2] = <<None, None>>
        /\ n >= MIN_SAMPLES =>
             /\ st_out[2] = <<Some(Quantile(asc, 2)),
                              Some(Quantile(asc, 3) - Quantile(asc, 1))>>
             /\ st_out[2][2][1] >= 0

\* MIN_SAMPLES values in falling order with a None and two NaN among them:
\* the median is 10.5 and the iqr 9.5 (in quarters: 42 and 38)
C24_Witness ==
  /\ st_vals = WithJunk(3, StatList(MIN_SAMPLES, 1, 2))
  /\ st_out = <<"median_iqr", <<Some(42), Some(38)>>>>

\* MIN_SAMPLES - 1 values and three that are None or NaN: no baseline,
\* though the list is longer than MIN_SAMPLES
C24_WitnessUndefined ==
  /\ st_vals = WithJunk(3, StatList(MIN_SAMPLES - 1, 3, 3))
  /\ Len(st_vals) > MIN_SAMPLES
  /\ st_out = <<"median_iqr", <<None, None>>>>

----------------------------------------------------------------------------
(* Claims about _get_var_quote (checked under SpecLookup) *)

\* the step answered a quote lookup
LookedUp == q_req' # None /\ Len(q_req') = 2

\* C30: a lookup of (base, n) returns the entry stored under (base, n) when
\* there is one; otherwise the entry of that base whose notional is nearest
\* to n, the earliest inserted of the nearest ones; it returns None exactly
\* when no entry of that base is stored, and never an entry of another base.
C30_NearestQuote ==
  [][LookedUp =>
       LET base == UpperStrip(q_req'[1])
           n    == q_req'[2]
           r    == q_resp'[2]
           same == {i \in 1..Len(VAR_BATCH) : VAR_BATCH[i][1][1] = base}
           dist(i) == Abs(VAR_BATCH[i][1][2] - n)
       IN  /\ r = None <=> same = {}
           /\ r # None => r[1].base = base
           /\ \A i \in same :
                VAR_BATCH[i][1][2] = n => r = Some(VAR_BATCH[i][2])
           /\ (same # {} /\ \A i \in same : VAR_BATCH[i][1][2] # n) =>
                \E i \in same :
                  /\ r = Some(VAR_BATCH[i][2])
                  /\ \A j \in same : dist(i) <= dist(j)
                  /\ \A j \in same : dist(j) = dist(i) => i <= j
    ]_vars

\* ETH is stored at 2000 and then at 1000: a lookup at 1500, as far from
\* the one as from the other, has returned the entry at 2000
C30_Witness ==
  /\ q_req = <<"eth", 1500>>
  /\ Len(VAR_BATCH) = 2
  /\ VAR_BATCH[1][1] = <<"ETH", 2000>>
  /\ VAR_BATCH[2][1] = <<"ETH", 1000>>
  /\ q_resp = <<"quote", Some(VAR_BATCH[1][2])>>

----------------------------------------------------------------------------
(* Further claims about the engine (checked under SpecEngine) *)

\* C32: an active anomaly has its anomaly_started_s set; after the tick that
\* set anomaly, at least PERSIST_SEC lie between anomaly_started_s and that
\* tick's now_s; and anomaly_started_s is never later than the last tick's
\* now_s (or, before any tick, than the clock).
C32_StartedBeforeActive ==
  \A b \in Bases :
    /\ markets[b].anomaly => markets[b].anomaly_started_s # None
    /\ (markets[b].anomaly /\ ~prevAnomaly[b] /\ lastTick # None) =>
         lastTick[1] - markets[b].anomaly_started_s[1] >= PERSIST_SEC
    /\ markets[b].anomaly_started_s # None =>
         /\ markets[b].anomaly_started_s[1] <= clock
         /\ lastTick # None => markets[b].anomaly_started_s[1] <= lastTick[1]

\* a tick has set anomaly more than PERSIST_SEC after anomaly_started_s
C32_Witness ==
  \E b \in Bases :
    /\ markets[b].anomaly
    /\ ~prevAnomaly[b]
    /\ lastTick # None
    /\ lastTick[1] - markets[b].anomaly_started_s[1] > PERSIST_SEC

----------------------------------------------------------------------------
(* A further claim about the confirm executor (checked under SpecConfirm) *)

\* the step starts an attempt: the loop goes to its first await for a market
AttemptStarts == pc_c' = "await_var" /\ pc_c # "await_var"

\* the step is the return of the second callback with both prices there
BothReturned == pc_c = "await_vwap" /\ c_var # None /\ res'[order[c_idx]] = "ok"

\* C33: anomaly is tested only before the awaits: an attempt starts for a
\* market whose anomaly is true, and when both callbacks have returned their
\* prices the confirmation and last_confirm_s are written even if the engine
\* has cleared the market's anomaly meanwhile.
C33_WritesAfterClear ==
  [][/\ AttemptStarts => markets[order[c_idx']].anomaly
     /\ (BothReturned /\ ~markets[order[c_idx]].anomaly) =>
          /\ markets'[order[c_idx]].confirm # markets[order[c_idx]].confirm
          /\ markets'[order[c_idx]].confirm # None
          /\ markets'[order[c_idx]].confirm[1].ts_ms = clock * 1000
          /\ markets'[order[c_idx]].last_confirm_s = Some(c_now)
          /\ ~markets'[order[c_idx]].anomaly
    ]_vars

\* the last engine tick cleared a market's anomaly, and the market holds a
\* confirmation written after that tick
C33_Witness ==
  \E b \in Bases :
    /\ ~markets[b].anomaly
    /\ lastCond[b] = "F"
    /\ prevAnomaly[b]
    /\ markets[b].confirm # None
    /\ markets[b].confirm[1].ts_ms > lastTick[1] * 1000
    /\ lastDone[b] = Some(clock)

----------------------------------------------------------------------------
(* A claim about ticks that find an input missing (checked under SpecGap) *)

\* best_ask or buy_1500 of m is None or zero
InputMissing(m) == ~Truthy(m.best_ask) \/ ~Truthy(m.buy_1500)

\* what the engine computes for a market and its history
Computed(m) ==
  <<m.spread_usd, m.spread_bps, m.baseline_median_bps, m.baseline_iqr_bps,
    m.deviation_bps, m.anomaly, m.anomaly_started_s, m.spread_bps_hist>>

\* C34: an engine tick that finds best_ask or buy_1500 of a market missing
\* or zero leaves every field of the market as it was; as nothing but a tick
\* writes the computed fields and the history, they keep the values of the
\* last tick that found both inputs.
C34_MissingInputKeepsAll ==
  [][\A b \in Bases :
       /\ (EngineTicked /\ InputMissing(markets[b])) => markets'[b] = markets[b]
       /\ ~EngineTicked => Computed(markets'[b]) = Computed(markets[b])
    ]_vars

\* a tick has found buy_1500 zero on a market with a baseline and a running
\* persistence timer, and has left them there
C34_Witness ==
  \E b \in Bases :
    /\ lastCond[b] = "NA"
    /\ updates = MaxUpdates
    /\ markets[b].buy_1500 = Some(0)
    /\ markets[b].best_ask = Some(10000)
    /\ markets[b].baseline_median_bps # None
    /\ markets[b].anomaly_started_s # None
    /\ markets[b].spread_bps # None

----------------------------------------------------------------------------
(* A further claim about /ingest/var_batch (checked under SpecBatch) *)

\* the keys of the dict vb
KeysOf(vb) == {vb[i][1] : i \in 1..Len(vb)}

\* C35: the base of every key of VAR_BATCH is in ACTIVE_BASES, and no step
\* takes a key out of VAR_BATCH or a base out of ACTIVE_BASES.
C35_StoresGrow ==
  /\ [](\A key \in KeysOf(VAR_BATCH) : key[1] \in ACTIVE_BASES)
  /\ [][/\ KeysOf(VAR_BATCH) \subseteq KeysOf(VAR_BATCH')
        /\ ACTIVE_BASES \subseteq ACTIVE_BASES'
       ]_vars

\* VAR_BATCH holds keys of two bases, after a request that stored a record
\* under a new key
C35_Witness ==
  /\ {key[1] : key \in KeysOf(VAR_BATCH)} = {"ETH", "BTC"}
  /\ ACTIVE_BASES = {"ETH", "BTC"}
  /\ b_resp = <<"ok", 1>>
  /\ Len(QuotesOf(b_last)) = 1

----------------------------------------------------------------------------
(* Claims about fetch_lighter_markets (checked under SpecCache) *)

\* the step is the entry of a call of fetch_lighter_markets
Called == mk_calls' = mk_calls + 1

\* the step is a call returning [] after its request failed or gave no list
Failed == mk_ret'[1] = "empty"

\* a failure or a non-list returns [] and leaves _CACHE as it was
FailureKeepsCache == Failed => CACHE' = CACHE

\* C31 (as claimed): a call less than CACHE_TTL_SEC after a successful
\* upstream fetch (counted from the entry of the call that fetched, the
\* reading kindest to the code) returns the cached list and issues no
\* request; a call whose request fails or gives no list returns [] and
\* leaves the cached data and its timestamp unchanged.
C31_CachedAfterFetch ==
  [][/\ (Called /\ mk_fetched # None /\ clock - mk_fetched[1].begun < CACHE_TTL_SEC) =>
          /\ mk_ret' = <<"cached", clock, CACHE.data[1]>>
          /\ mk_flight' = mk_flight
     /\ FailureKeepsCache
    ]_vars

\* C31 with the 60 s counted from _CACHE["ts"], the entry of the call that
\* wrote the cache last, and a request issued from then on
C31_CachedFromCallEntry ==
  [][/\ Called =>
          IF CACHE.data # None /\ clock - CACHE.ts < CACHE_TTL_SEC
          THEN mk_ret' = <<"cached", clock, CACHE.data[1]>> /\ mk_flight' = mk_flight
          ELSE mk_ret' = <<"request", clock>> /\ Len(mk_flight') = Len(mk_flight) + 1
     /\ FailureKeepsCache
    ]_vars

\* a call is answered from the cache in the last second of the 60, after a
\* fetch that took a second
C31_FromCallEntryWitness ==
  /\ mk_ret[1] = "cached"
  /\ clock - CACHE.ts = CACHE_TTL_SEC - 1
  /\ mk_fetched # None
  /\ mk_fetched[1].done = CACHE.ts + 1

====
